---- MODULE Spec2Model ----
(***************************************************************************)
(* Ingestion pipeline of the Smart News Aggregator worker:                 *)
(*   NewsQueueService  -> jobs on 'news-queue' (BullMQ options)            *)
(*   NewsProcessor     -> dispatch by job name                             *)
(*   NewsStorageService-> saveHackerNewsStories / processBatch /           *)
(*                        checkForDuplicates / bulkInsertArticles /        *)
(*                        cleanupOldArticles over the Article table        *)
(* Strings are sequences of one-character strings.  Time is counted in     *)
(* days (story.time, publishedAt, createdAt and Date.now() alike).         *)
(***************************************************************************)
EXTENDS Integers, Sequences, FiniteSets, TLC

(***************************************************************************)
(* Text                                                                    *)
(***************************************************************************)
UpperCase == <<"A", "B", "C", "D", "E", "F", "G", "H", "I", "J", "K", "L", "M", "N", "O", "P", "Q", "R", "S", "T", "U", "V", "W", "X", "Y", "Z">>

LowerCase == <<"a", "b", "c", "d", "e", "f", "g", "h", "i", "j", "k", "l", "m", "n", "o", "p", "q", "r", "s", "t", "u", "v", "w", "x", "y", "z">>

Digits == {"0", "1", "2", "3", "4", "5", "6", "7", "8", "9"}

Range(f) == {f[x] : x \in DOMAIN f}

\* String.prototype.toLowerCase on one character
LowerChar(c) ==
  IF \E k \in 1..26 : UpperCase[k] = c
    THEN LowerCase[CHOOSE k \in 1..26 : UpperCase[k] = c]
    ELSE c

toLowerCase(s) == [k \in 1..Len(s) |-> LowerChar(s[k])]

\* the regular expression classes \w and \s
IsWordChar(c) == c \in Range(UpperCase) \cup Range(LowerCase) \cup Digits \cup {"_"}

IsSpace(c) == c \in {" ", "\t", "\n"}

\* .replace(/\s+/g, ' '): every run of whitespace becomes one blank
RECURSIVE CollapseSpaces(_)
CollapseSpaces(s) ==
  IF s = <<>> THEN <<>>
  ELSE IF IsSpace(Head(s))
    THEN IF Len(s) > 1 /\ IsSpace(s[2])
           THEN CollapseSpaces(Tail(s))
           ELSE <<" ">> \o CollapseSpaces(Tail(s))
    ELSE <<Head(s)>> \o CollapseSpaces(Tail(s))

\* String.prototype.trim
RECURSIVE TrimLeft(_)
TrimLeft(s) == IF s # <<>> /\ IsSpace(Head(s)) THEN TrimLeft(Tail(s)) ELSE s

RECURSIVE TrimRight(_)
TrimRight(s) ==
  IF s # <<>> /\ IsSpace(s[Len(s)]) THEN TrimRight(SubSeq(s, 1, Len(s) - 1)) ELSE s

Trim(s) == TrimRight(TrimLeft(s))

KeepWordOrSpace(c) == IsWordChar(c) \/ IsSpace(c)

\* normalizeTitle: lower case, punctuation removed, whitespace collapsed, trimmed
normalizeTitle(title) ==
  Trim(CollapseSpaces(SelectSeq(toLowerCase(title), KeepWordOrSpace)))

\* String.prototype.split(' '): the pieces between single blanks
RECURSIVE SplitBlank(_, _)
SplitBlank(s, cur) ==
  IF s = <<>> THEN <<cur>>
  ELSE IF Head(s) = " "
    THEN <<cur>> \o SplitBlank(Tail(s), <<>>)
    ELSE SplitBlank(Tail(s), Append(cur, Head(s)))

Split(s) == SplitBlank(s, <<>>)

\* String contains, as the database evaluates it with mode: 'insensitive'
ContainsInsensitive(hay, needle) ==
  LET h == toLowerCase(hay)
      n == toLowerCase(needle)
  IN \E k \in 1..(Len(h) - Len(n) + 1) : SubSeq(h, k, k + Len(n) - 1) = n

EqualsInsensitive(a, b) == toLowerCase(a) = toLowerCase(b)

\* the words of a normalized title that are longer than minLen
WordsLongerThan(title, minLen) ==
  {w \in Range(Split(normalizeTitle(title))) : Len(w) > minLen}

\* variant: a threshold of one half, met by a similarity of exactly 0.5
SimilarityAtLeastHalf(title1, title2) ==
  LET words1 == WordsLongerThan(title1, 2)
      words2 == WordsLongerThan(title2, 2)
  IN 2 * Cardinality(words1 \cap words2) >= Cardinality(words1 \cup words2)

\* variant: the threshold met by a similarity of exactly 0.8
SimilarityAtLeastThreshold(title1, title2) ==
  LET words1 == WordsLongerThan(title1, 2)
      words2 == WordsLongerThan(title2, 2)
  IN 5 * Cardinality(words1 \cap words2) >= 4 * Cardinality(words1 \cup words2)

\* calculateTitleSimilarity(t1, t2) > 0.8, as the integer comparison
\* 5 * |intersection| > 4 * |union| (0/0 is NaN, which compares false)
SimilarityAboveThreshold(title1, title2) ==
  LET words1 == WordsLongerThan(title1, 2)
      words2 == WordsLongerThan(title2, 2)
  IN 5 * Cardinality(words1 \cap words2) > 4 * Cardinality(words1 \cup words2)

(***************************************************************************)
(* Bounds                                                                  *)
(***************************************************************************)
\* units of work in one behaviour: jobs added to 'news-queue' and calls of
\* the bulk-insert endpoint
MaxWork == 2

\* storage calls running at the same time in SpecConcurrent (worker
\* processes consuming 'news-queue', one job each, and the bulk-insert
\* endpoint); Spec runs one call at a time
MaxConcurrent == 2

\* database outages (connection loss) in one behaviour
MaxOutages == 1

\* the clock starts at Now0 and stops advancing at MaxNow
Now0 == 40

MaxNow == 41

(***************************************************************************)
(* Program constants                                                       *)
(***************************************************************************)
\* NewsStorageService.maxRetries
maxRetries == 3

\* sub-batch size of saveHackerNewsStories (50 in the source; scaled down
\* so that an input of three stories spans two sub-batches)
batchSize == 2

\* the title strategy looks back 30 days
TitleWindowDays == 30

\* retention passed by the scheduler to addCleanupJob
CleanupDays == 30

(***************************************************************************)
(* Stories (ProcessedStory) offered to the pipeline                        *)
(***************************************************************************)
TitleRustWins == <<"R", "u", "s", "t", " ", "w", "i", "n", "s">>

TitleRustWinsLoud == <<"R", "U", "S", "T", " ", " ", "w", "i", "n", "s", "!">>

TitleRustShips == <<"R", "u", "s", "t", " ", "s", "h", "i", "p", "s">>

TitleOldNews == <<"O", "l", "d", " ", "n", "e", "w", "s">>

AuthorAnn == <<"A", "n", "n">>

AuthorBob == <<"b", "o", "b">>

\* hasTitle = FALSE is a story whose title is undefined (malformed item)
MkStory(id, hasTitle, title, author, url, time) ==
  [id |-> id, hasTitle |-> hasTitle, title |-> title, author |-> author,
   sourceUrl |-> url, time |-> time]

\* a new story
StoryA == MkStory(1, TRUE, TitleRustWins, AuthorAnn, "u1", 10)

\* another item with the url of StoryA
StoryUrlDup == MkStory(2, TRUE, TitleRustShips, AuthorBob, "u1", 10)

\* another item whose title normalizes to the title of StoryA
StoryTitleDup == MkStory(3, TRUE, TitleRustWinsLoud, AuthorBob, "u3", 10)

\* shares a word with StoryA, similarity 1/3
StoryB == MkStory(4, TRUE, TitleRustShips, AuthorBob, "u4", 10)

\* malformed: no title
StoryBad == MkStory(5, FALSE, <<>>, AuthorAnn, "u5", 10)

\* ingested by an earlier cycle, 30 days before Now0
StoryOld == MkStory(9, TRUE, TitleOldNews, AuthorAnn, "u9", 10)

\* story lists carried by process-news-batch jobs and bulk-insert calls: one
\* with a story without title, one with a story twice in one sub-batch, one
\* with a story in two sub-batches
Batches ==
  { <<StoryA, StoryB, StoryBad>>,
    <<StoryA, StoryA, StoryB>>,
    <<StoryUrlDup, StoryTitleDup, StoryUrlDup>> }

\* stories carried by process-single-story jobs
Singles == {StoryA}

\* titles of the stories of SpecDedup
TitleFedShort == <<"F", "e", "d", " ", "s", "i", "g", "n", "a", "l", "s", " ", "r", "a", "t", "e", " ", "c", "u", "t">>

TitleFedLong == <<"F", "e", "d", "e", "r", "a", "l", " ", "R", "e", "s", "e", "r", "v", "e", " ", "s", "i", "g", "n", "a", "l", "s", " ", "a", " ", "r", "a", "t", "e", " ", "c", "u", "t">>

TitleRaceAgain == <<"R", "u", "s", "t", " ", "w", "i", "n", "s", " ", "b", "i", "g", " ", "r", "a", "c", "e", " ", "a", "g", "a", "i", "n">>

TitleRace == <<"R", "u", "s", "t", " ", "w", "i", "n", "s", " ", "b", "i", "g", " ", "r", "a", "c", "e">>

AuthorAnnLoud == <<"A", "N", "N">>

\* a Hacker News user whose name is 'unknown'
AuthorNamedUnknown == <<"u", "n", "k", "n", "o", "w", "n">>

\* stories saved by earlier cycles, in the order they were saved
StoryRecent == MkStory(6, TRUE, TitleRustShips, AuthorBob, "u6", 20)

StoryFed == MkStory(7, TRUE, TitleFedShort, AuthorAnn, "u7", 20)

StoryRaceAgain == MkStory(8, TRUE, TitleRaceAgain, AuthorAnn, "u8", 15)

StoryByUnknown == MkStory(13, TRUE, TitleOldNews, AuthorNamedUnknown, "u13", 20)

EarlierStories == <<StoryA, StoryRecent, StoryFed, StoryRaceAgain, StoryByUnknown>>

\* the same item as StoryA, title and author typed differently
StoryALoud == MkStory(1, TRUE, TitleRustWinsLoud, AuthorAnnLoud, "u1", 10)

\* StoryA under another id, by another author, at another url
StoryAOtherId == MkStory(2, TRUE, TitleRustWins, AuthorAnn, "u1", 10)

StoryAOtherAuthor == MkStory(1, TRUE, TitleRustWins, AuthorBob, "u1", 10)

StoryAOtherUrl == MkStory(1, TRUE, TitleRustWins, AuthorAnn, "u3", 10)

\* the longer headline of the story of StoryFed
StoryFedLong == MkStory(11, TRUE, TitleFedLong, AuthorBob, "u11", 21)

\* four of the five words of StoryRaceAgain: similarity 4/5
StoryRace == MkStory(12, TRUE, TitleRace, AuthorBob, "u12", 21)

\* the item of StoryByUnknown with no author (story.by undefined)
StoryAnon == MkStory(13, TRUE, TitleOldNews, <<>>, "u13", 20)

\* stories carried by the process-single-story job of SpecDedup
Probes ==
  { StoryTitleDup, StoryALoud, StoryAOtherId, StoryAOtherAuthor, StoryAOtherUrl,
    StoryFedLong, StoryRace, StoryAnon }

(***************************************************************************)
(* Fingerprint                                                             *)
(***************************************************************************)
AuthorUnknown == <<"u", "n", "k", "n", "o", "w", "n">>

\* story.author?.toLowerCase() || 'unknown'
HashAuthor(author) == IF author = <<>> THEN AuthorUnknown ELSE toLowerCase(author)

\* variant: the author taken as typed
createContentHashRawAuthor(story) ==
  <<story.id, normalizeTitle(story.title), story.author, story.time, story.sourceUrl>>

\* createContentHash: SHA-256 of the JSON of {id, normalized title, author,
\* time, url}; the digest is modelled by the tuple it is computed from.
\* Called only on stories that have a title (it throws on the others).
createContentHash(story) ==
  <<story.id, normalizeTitle(story.title), HashAuthor(story.author), story.time, story.sourceUrl>>

\* chunkArray
RECURSIVE chunkArray(_, _)
chunkArray(array, size) ==
  IF Len(array) = 0 THEN <<>>
  ELSE IF Len(array) <= size THEN <<array>>
  ELSE <<SubSeq(array, 1, size)>> \o chunkArray(SubSeq(array, size + 1, Len(array)), size)

(***************************************************************************)
(* The Article table                                                       *)
(***************************************************************************)
\* variant: a column default that marks new rows as taken by the processor
DefaultStatusProcessing == "processing"

\* "processingStatus" TEXT NOT NULL DEFAULT 'pending'
DefaultStatus == "pending"

\* the row written by article.create for a story
ArticleRow(id, sourceId, story, hash, createdAt) ==
  [id |-> id, sourceId |-> sourceId, url |-> story.sourceUrl, title |-> story.title,
   publishedAt |-> story.time, hash |-> hash, createdAt |-> createdAt,
   processingStatus |-> DefaultStatus]

\* variant: a table without Article_url_key
HashIndexOnly(rows, row) == \E x \in rows : x.hash = row.hash

\* the unique indexes Article_url_key and Article_hash_key
UniqueViolation(rows, row) == \E x \in rows : x.url = row.url \/ x.hash = row.hash

\* article.findUnique({ where: { hash } }) and ({ where: { url } })
FindByHash(rows, hash) == {x \in rows : x.hash = hash}

FindByUrl(rows, url) == {x \in rows : x.url = url}

\* the where clause of the title query: title equal, or containing the
\* normalized title, or containing a word longer than 3 characters, and
\* published within the window
TitleCandidates(rows, story, clock) ==
  {x \in rows :
     /\ \/ EqualsInsensitive(x.title, story.title)
        \/ ContainsInsensitive(x.title, normalizeTitle(story.title))
        \/ \E w \in WordsLongerThan(story.title, 3) : ContainsInsensitive(x.title, w)
     /\ x.publishedAt >= clock - TitleWindowDays}

\* article.findFirst(... orderBy publishedAt desc): the rows it may return
FindFirstByTitle(rows, story, clock) ==
  LET cands == TitleCandidates(rows, story, clock)
  IN {x \in cands : \A y \in cands : y.publishedAt <= x.publishedAt}

\* variant: the row created exactly at the cutoff matched as well
OlderThanOrAt(rows, cutoff) == {x \in rows : x.createdAt <= cutoff}

\* variant: the comparison reversed
NewerThan(rows, cutoff) == {x \in rows : x.createdAt > cutoff}

\* cleanupOldArticles: the rows matched by createdAt < cutoff
OlderThan(rows, cutoff) == {x \in rows : x.createdAt < cutoff}

(***************************************************************************)
(* State                                                                   *)
(***************************************************************************)
VARIABLES
  articles,   \* committed rows of the Article table
  sources,    \* committed rows of the Source table
  now,        \* the clock (Date.now() and CURRENT_TIMESTAMP)
  dbUp,       \* the database accepts connections
  outages,    \* outages so far
  queue,      \* the jobs of 'news-queue', in the order they were added
  call,       \* the running storage call of each caller
  bulks,      \* bulk-insert calls so far
  retry,      \* a database call of the storage service, under retryWithBackoff or bare
  sched,      \* the running scheduler handler
  hn,         \* the Hacker News API and a running fetchAllStories
  content,    \* 'content-queue', its worker and its clock
  proc,       \* a running ContentProcessingService.processArticle
  cleaning,   \* the finished jobs of the registered queues and a call of cleanOldJobs
  backlog,  \* the records not yet enriched, oldest first, and their jobs
  batchRun    \* a running handleBatchContentProcessing

vars == <<articles, sources, now, dbUp, outages, queue, call, bulks, retry, sched, hn, content, proc, cleaning, backlog, batchRun>>

Jobs == 1..MaxWork

\* the bulk-insert endpoint of the scheduler controller
BulkCaller == MaxWork + 1

Callers == Jobs \cup {BulkCaller}

HackerNewsUrl == "https://hacker-news.firebaseio.com/v0"

\* rows written by prisma/seed.ts: an outlet and its article, which no row of
\* another table refers to
SeedSource == [id |-> 1, url |-> "https://rss.cnn.com/rss/edition.rss"]

SeedArticle == ArticleRow(1, SeedSource.id, StoryOld, createContentHash(StoryOld), 10)

NoCall ==
  [op |-> "none", pc |-> "idle", stories |-> <<>>, olderThanDays |-> 0,
   ensAttempt |-> 1, attempt |-> 1, sourceId |-> 0, b |-> 1, i |-> 1,
   saved |-> 0, skipped |-> 0, errors |-> 0, duplicates |-> 0,
   pSaved |-> 0, pSkipped |-> 0, pErrors |-> 0, pDuplicates |-> 0,
   tx |-> "none", writes |-> {}, toInsert |-> <<>>,
   reason |-> "pending", outcome |-> "none", deleted |-> 0]

\* a call that is about to return its counters, or to throw
Ending(rec, outcome) ==
  [NoCall EXCEPT !.op = rec.op, !.pc = outcome, !.stories = rec.stories,
                 !.saved = rec.saved, !.skipped = rec.skipped, !.errors = rec.errors,
                 !.duplicates = rec.duplicates, !.deleted = rec.deleted]

\* no database call under observation
NoRetry ==
  [op |-> "none", pc |-> "idle", outcomes |-> <<>>, attempt |-> 1, invocations |-> 0,
   slept |-> <<>>, lastError |-> "none"]

\* the three story lists of the Hacker News API
Categories == {"top", "best", "new"}

\* no fetch running
NoFetch ==
  [pc |-> "idle", idLists |-> <<>>, items |-> <<>>,
   settled |-> [cat \in Categories |-> [status |-> "pending", value |-> <<>>]],
   result |-> [top |-> <<>>, best |-> <<>>, new |-> <<>>]]

\* no scheduler handler running
NoTick ==
  [handler |-> "none", pc |-> "idle",
   fetched |-> [top |-> <<>>, best |-> <<>>, new |-> <<>>], stories |-> <<>>,
   failed |-> "none", outcome |-> "none", runs |-> 0, failedRuns |-> 0]

\* an empty content queue, its worker idle
NoContent ==
  [jobs |-> <<>>, wait |-> <<>>, time |-> 0, scanned |-> <<>>, queued |-> 0,
   pc |-> "idle", job |-> 0, success |-> FALSE]

\* no process-batch-content job is running
NoBatchRun ==
  [pc |-> "idle", articleIds |-> <<>>, i |-> 0, processed |-> 0, successful |-> 0,
   failed |-> 0, errors |-> 0, outcomes |-> <<>>]

\* no record waits for enrichment
NoBacklog == [rows |-> <<>>, jobs |-> <<>>, active |-> 0]

\* empty queues, cleanOldJobs not called
NoCleaning == [jobs |-> {}, pc |-> "idle", days |-> 0, cleaned |-> 0]

\* the value of lastError before any invocation failed
NoError == [ok |-> TRUE, response |-> FALSE, status |-> 0, retryAfter |-> <<>>]

\* no processArticle is running
NoProc ==
  [pc |-> "idle", service |-> "none", attempt |-> 0, calls |-> <<>>,
   slept |-> <<>>, lastError |-> NoError, ended |-> <<>>,
   summary |-> "none", result |-> "none"]

Init ==
  /\ articles = {SeedArticle}
  /\ sources = {SeedSource}
  /\ now = Now0
  /\ dbUp = TRUE
  /\ outages = 0
  /\ queue = <<>>
  /\ call = [c \in Callers |-> NoCall]
  /\ bulks = 0
  /\ retry = NoRetry
  /\ sched = NoTick
  /\ hn = NoFetch
  /\ content = NoContent
  /\ proc = NoProc
  /\ cleaning = NoCleaning
  /\ backlog = NoBacklog
  /\ batchRun = NoBatchRun

\* rows inserted by transactions that have not ended yet
Uncommitted == UNION {call[c].writes : c \in Callers}

OthersWrites(c) == UNION {call[k].writes : k \in Callers \ {c}}

\* what a statement of caller c's transaction reads (READ COMMITTED)
Visible(c) == articles \cup call[c].writes

\* a fresh primary key (cuid())
FreshId(rows) == CHOOSE n \in 1..(Cardinality(rows) + 1) : \A x \in rows : x.id # n

(***************************************************************************)
(* NewsQueueService: producers                                             *)
(***************************************************************************)
\* newsQueue.add(name, data, { attempts, backoff }): runs counts the
\* executions of the job, returned tells whether one of them returned
NewJob(name, data, attempts) ==
  [name |-> name, data |-> data, attempts |-> attempts, attemptsMade |-> 0,
   state |-> "waiting", runs |-> 0, returned |-> FALSE]

\* add('process-news-batch', ..., { attempts: 3 })
addNewsBatch(stories) ==
  /\ Len(queue) + bulks < MaxWork
  /\ queue' = Append(queue, NewJob("process-news-batch", stories, 3))
  /\ UNCHANGED <<articles, sources, now, dbUp, outages, call, bulks, retry, sched, hn, content, proc, cleaning, backlog, batchRun>>

\* add('process-single-story', ..., { attempts: 3 })
addSingleStory(story) ==
  /\ Len(queue) + bulks < MaxWork
  /\ queue' = Append(queue, NewJob("process-single-story", <<story>>, 3))
  /\ UNCHANGED <<articles, sources, now, dbUp, outages, call, bulks, retry, sched, hn, content, proc, cleaning, backlog, batchRun>>

\* variant: the cleanup job added with the options of a news-batch job
addCleanupJobAsBatch(olderThanDays) ==
  /\ Len(queue) + bulks < MaxWork
  /\ queue' = Append(queue, NewJob("cleanup-old-articles", olderThanDays, 3))
  /\ UNCHANGED <<articles, sources, now, dbUp, outages, call, bulks, retry, sched, hn, content, proc, cleaning, backlog, batchRun>>

\* add('cleanup-old-articles', ..., { attempts: 2 })
addCleanupJob(olderThanDays) ==
  /\ Len(queue) + bulks < MaxWork
  /\ queue' = Append(queue, NewJob("cleanup-old-articles", olderThanDays, 2))
  /\ UNCHANGED <<articles, sources, now, dbUp, outages, call, bulks, retry, sched, hn, content, proc, cleaning, backlog, batchRun>>

(***************************************************************************)
(* The queue's worker: job life cycle                                      *)
(***************************************************************************)
Running == {c \in Callers : call[c].pc # "idle"}

\* the processor threw: retry after the backoff while attempts remain
MoveToFailed(q, j) ==
  [q EXCEPT ![j].attemptsMade = @ + 1,
            ![j].state = IF q[j].attemptsMade + 1 < q[j].attempts
                           THEN "delayed" ELSE "failed"]

\* the processor returned
MoveToCompleted(q, j) ==
  [q EXCEPT ![j].state = "completed"]

\* NewsProcessor.process: a worker takes the job and dispatches on its name
process(j, limit) ==
  /\ j \in DOMAIN queue
  /\ queue[j].state = "waiting"
  /\ Cardinality(Running) < limit
  /\ queue' = [queue EXCEPT ![j].state = "active", ![j].runs = @ + 1]
  /\ call' = [call EXCEPT ![j] =
       IF queue[j].name = "cleanup-old-articles"
         THEN [NoCall EXCEPT !.op = "cleanup", !.pc = "cleanup",
                             !.olderThanDays = queue[j].data]
         ELSE [NoCall EXCEPT !.op = "save", !.pc = "ensureFind",
                             !.stories = queue[j].data]]
  /\ UNCHANGED <<articles, sources, now, dbUp, outages, bulks, retry, sched, hn, content, proc, cleaning, backlog, batchRun>>

\* the backoff delay of a failed attempt has elapsed
BackoffElapsed(j) ==
  /\ j \in DOMAIN queue
  /\ queue[j].state = "delayed"
  /\ queue' = [queue EXCEPT ![j].state = "waiting"]
  /\ UNCHANGED <<articles, sources, now, dbUp, outages, call, bulks, retry, sched, hn, content, proc, cleaning, backlog, batchRun>>

\* the storage call of caller c ends with an error
Thrown(c, rec) == call' = [call EXCEPT ![c] = Ending(rec, "throw")]

\* the call returns: handleNewsBatch, handleSingleStory and handleCleanup
\* return and the job completes; the bulk-insert endpoint answers
callReturns(c) ==
  /\ call[c].pc = "return"
  /\ call' = [call EXCEPT ![c] = NoCall]
  /\ queue' = IF c \in Jobs
                THEN MoveToCompleted([queue EXCEPT ![c].returned = TRUE], c)
                ELSE queue
  /\ UNCHANGED <<articles, sources, now, dbUp, outages, bulks, retry, sched, hn, content, proc, cleaning, backlog, batchRun>>

\* variant: a handler whose catch logs and does not rethrow
callThrowsSwallowed(c) ==
  /\ call[c].pc = "throw"
  /\ call' = [call EXCEPT ![c] = NoCall]
  /\ queue' = IF c \in Jobs THEN MoveToCompleted(queue, c) ELSE queue
  /\ UNCHANGED <<articles, sources, now, dbUp, outages, bulks, retry, sched, hn, content, proc, cleaning, backlog, batchRun>>

\* the call throws: the handler logs and rethrows, and the job's attempt has
\* failed; the bulk-insert endpoint answers with the message
callThrows(c) ==
  /\ call[c].pc = "throw"
  /\ call' = [call EXCEPT ![c] = NoCall]
  /\ queue' = IF c \in Jobs THEN MoveToFailed(queue, c) ELSE queue
  /\ UNCHANGED <<articles, sources, now, dbUp, outages, bulks, retry, sched, hn, content, proc, cleaning, backlog, batchRun>>

(***************************************************************************)
(* NewsStorageService.ensureHackerNewsSource, under its two retry layers   *)
(***************************************************************************)
\* the statement after the source is known
AfterEnsure(rec, id) ==
  IF rec.op = "bulk"
    THEN [rec EXCEPT !.sourceId = id, !.pc = "bulkFind"]
    ELSE IF Len(rec.stories) = 0
      THEN Ending(rec, "return")
      ELSE [rec EXCEPT !.sourceId = id, !.pc = "txBegin"]

\* variant: ensureHackerNewsSource called without the outer retryWithBackoff
EnsureFailedOnce(c) == Thrown(c, call[c])

\* a statement of ensureHackerNewsSource failed on every attempt of its own
\* retryWithBackoff (one step stands for the attempts of the statement: it
\* fails when the database is down for all of them): the outer
\* retryWithBackoff repeats ensureHackerNewsSource from its first statement,
\* and rethrows after the last attempt
EnsureFailed(c) ==
  LET rec == call[c] IN
  IF rec.ensAttempt < maxRetries
    THEN call' = [call EXCEPT ![c] = [rec EXCEPT !.ensAttempt = @ + 1,
                                             !.pc = "ensureFind"]]
    ELSE Thrown(c, rec)

\* source.findUnique({ where: { url } })
ensureFind(c) ==
  /\ call[c].pc = "ensureFind"
  /\ LET found == {x \in sources : x.url = HackerNewsUrl} IN
     IF dbUp
       THEN call' = [call EXCEPT ![c] =
              IF found # {}
                THEN AfterEnsure(call[c], (CHOOSE x \in found : TRUE).id)
                ELSE [call[c] EXCEPT !.pc = "ensureCreate"]]
       ELSE EnsureFailed(c)
  /\ UNCHANGED <<articles, sources, now, dbUp, outages, queue, bulks, retry, sched, hn, content, proc, cleaning, backlog, batchRun>>

\* source.create(...), rejected by Source_url_key when the row exists
ensureCreate(c) ==
  /\ call[c].pc = "ensureCreate"
  /\ IF dbUp /\ ~ \E x \in sources : x.url = HackerNewsUrl
       THEN LET id == Cardinality(sources) + 1 IN
            /\ sources' = sources \cup {[id |-> id, url |-> HackerNewsUrl]}
            /\ call' = [call EXCEPT ![c] = AfterEnsure(call[c], id)]
       ELSE /\ EnsureFailed(c)
            /\ UNCHANGED sources
  /\ UNCHANGED <<articles, now, dbUp, outages, queue, bulks, retry, sched, hn, content, proc, cleaning, backlog, batchRun>>

(***************************************************************************)
(* saveHackerNewsStories / processBatch                                    *)
(***************************************************************************)
Chunks(rec) == chunkArray(rec.stories, batchSize)

Chunk(rec) == Chunks(rec)[rec.b]

Story(rec) == Chunk(rec)[rec.i]

\* the loop of saveHackerNewsStories moves to the next sub-batch, or returns
NextChunk(rec) ==
  IF rec.b < Len(Chunks(rec))
    THEN [rec EXCEPT !.b = @ + 1, !.pc = "txBegin", !.attempt = 1, !.i = 1,
                     !.tx = "none", !.writes = {},
                     !.pSaved = 0, !.pSkipped = 0, !.pErrors = 0, !.pDuplicates = 0]
    ELSE Ending(rec, "return")

\* processBatch returned its counters
BatchReturned(rec) ==
  NextChunk([rec EXCEPT !.saved = @ + rec.pSaved, !.skipped = @ + rec.pSkipped,
                        !.errors = @ + rec.pErrors, !.duplicates = @ + rec.pDuplicates])

\* variant: a failed sub-batch ending the whole call
BatchThrewAborts(rec) == Ending(rec, "throw")

\* processBatch threw: the catch of saveHackerNewsStories counts the sub-batch
BatchThrew(rec) ==
  NextChunk([rec EXCEPT !.errors = @ + Len(Chunk(rec))])

\* prisma.$transaction rejected: retryWithBackoff runs the callback again
\* (the counters of processBatch live outside the callback and keep their
\* values), and rethrows after the last attempt
TxFailed(rec) ==
  IF rec.attempt = maxRetries
    THEN BatchThrew(rec)
    ELSE [rec EXCEPT !.attempt = @ + 1, !.pc = "txBegin", !.tx = "none", !.writes = {}]

\* the loop over the stories of the sub-batch moves on
NextStory(rec) ==
  IF rec.i < Len(Chunk(rec))
    THEN [rec EXCEPT !.i = @ + 1, !.pc = "checkHash"]
    ELSE [rec EXCEPT !.pc = "txCommit"]

\* variant: every rejection counted under skipped
DuplicateAllSkipped(rec, reason) ==
  NextStory([rec EXCEPT !.reason = reason, !.pSkipped = @ + 1])

\* variant: every rejection counted under duplicates
DuplicateAllDuplicates(rec, reason) ==
  NextStory([rec EXCEPT !.reason = reason, !.pDuplicates = @ + 1])

\* checkForDuplicates returned a match: skipped counts fingerprint matches,
\* duplicates counts url and title matches
Duplicate(rec, reason) ==
  NextStory(IF reason = "hash"
              THEN [rec EXCEPT !.reason = reason, !.pSkipped = @ + 1]
              ELSE [rec EXCEPT !.reason = reason, !.pDuplicates = @ + 1])

\* the per-item catch
ItemError(rec) == NextStory([rec EXCEPT !.reason = "error", !.pErrors = @ + 1])

\* prisma.$transaction opens the transaction and starts the callback
txBegin(c) ==
  /\ call[c].pc = "txBegin"
  /\ call' = [call EXCEPT ![c] =
       IF dbUp
         THEN [call[c] EXCEPT !.tx = "open", !.writes = {}, !.i = 1, !.pc = "checkHash"]
         ELSE TxFailed(call[c])]
  /\ UNCHANGED <<articles, sources, now, dbUp, outages, queue, bulks, retry, sched, hn, content, proc, cleaning, backlog, batchRun>>

(***************************************************************************)
(* checkForDuplicates: three queries inside the transaction.  A query of   *)
(* a transaction that has been aborted or has lost its connection fails    *)
(* on every attempt of its retryWithBackoff, which then rethrows into the  *)
(* per-item catch.                                                         *)
(***************************************************************************)
\* variant: the url query before the fingerprint query
checkUrlFirst(c) ==
  /\ call[c].pc = "checkHash"
  /\ LET rec == call[c]
         story == Story(rec) IN
     call' = [call EXCEPT ![c] =
       IF ~ story.hasTitle \/ rec.tx # "open"
         THEN ItemError(rec)
         ELSE IF FindByUrl(Visible(c), story.sourceUrl) # {}
           THEN Duplicate(rec, "url")
           ELSE IF FindByHash(Visible(c), createContentHash(story)) # {}
             THEN Duplicate(rec, "hash")
             ELSE [rec EXCEPT !.pc = "checkTitle", !.reason = "pending"]]
  /\ UNCHANGED <<articles, sources, now, dbUp, outages, queue, bulks, retry, sched, hn, content, proc, cleaning, backlog, batchRun>>

\* createContentHash (a TypeError when the title is undefined), then
\* 1. article.findUnique({ where: { hash } })
checkHash(c) ==
  /\ call[c].pc = "checkHash"
  /\ LET rec == call[c]
         story == Story(rec) IN
     call' = [call EXCEPT ![c] =
       IF ~ story.hasTitle \/ rec.tx # "open"
         THEN ItemError(rec)
         ELSE IF FindByHash(Visible(c), createContentHash(story)) # {}
           THEN Duplicate(rec, "hash")
           ELSE [rec EXCEPT !.pc = "checkUrl", !.reason = "pending"]]
  /\ UNCHANGED <<articles, sources, now, dbUp, outages, queue, bulks, retry, sched, hn, content, proc, cleaning, backlog, batchRun>>

\* 2. article.findUnique({ where: { url } })
checkUrl(c) ==
  /\ call[c].pc = "checkUrl"
  /\ LET rec == call[c]
         story == Story(rec) IN
     call' = [call EXCEPT ![c] =
       IF rec.tx # "open"
         THEN ItemError(rec)
         ELSE IF FindByUrl(Visible(c), story.sourceUrl) # {}
           THEN Duplicate(rec, "url")
           ELSE [rec EXCEPT !.pc = "checkTitle"]]
  /\ UNCHANGED <<articles, sources, now, dbUp, outages, queue, bulks, retry, sched, hn, content, proc, cleaning, backlog, batchRun>>

\* 4. article.findFirst by title, then the similarity of the row it returned
checkTitle(c) ==
  /\ call[c].pc = "checkTitle"
  /\ LET rec == call[c]
         story == Story(rec)
         none == [rec EXCEPT !.pc = "create", !.reason = "none"] IN
     IF WordsLongerThan(story.title, 3) = {}
       THEN call' = [call EXCEPT ![c] = none]
       ELSE IF rec.tx # "open"
         THEN call' = [call EXCEPT ![c] = ItemError(rec)]
         ELSE LET found == FindFirstByTitle(Visible(c), story, now) IN
              IF found = {}
                THEN call' = [call EXCEPT ![c] = none]
                ELSE \E existingByTitle \in found :
                       call' = [call EXCEPT ![c] =
                         IF /\ Len(existingByTitle.title) > 0
                            /\ SimilarityAboveThreshold(story.title, existingByTitle.title)
                           THEN Duplicate(rec, "title")
                           ELSE none]
  /\ UNCHANGED <<articles, sources, now, dbUp, outages, queue, bulks, retry, sched, hn, content, proc, cleaning, backlog, batchRun>>

\* another transaction that waits, in its own insert, for a row of caller c
WaitsFor(k, c) ==
  /\ call[k].pc = "create"
  /\ call[k].tx = "open"
  /\ LET row == ArticleRow(0, call[k].sourceId, Story(call[k]),
                           createContentHash(Story(call[k])), now) IN
     /\ ~ UniqueViolation(Visible(k), row)
     /\ UniqueViolation(call[c].writes, row)

\* tx.article.create: rejected by a unique index (which aborts the
\* transaction), or waiting for the transaction that holds a conflicting
\* uncommitted row (a wait cycle is broken by failing one of the inserts)
createArticle(c) ==
  /\ call[c].pc = "create"
  /\ LET rec == call[c]
         story == Story(rec)
         row == ArticleRow(FreshId(articles \cup Uncommitted), rec.sourceId, story,
                           createContentHash(story), now) IN
     IF rec.tx # "open"
       THEN call' = [call EXCEPT ![c] = ItemError(rec)]
       ELSE IF UniqueViolation(Visible(c), row)
         THEN call' = [call EXCEPT ![c] = ItemError([rec EXCEPT !.tx = "aborted"])]
         ELSE IF UniqueViolation(OthersWrites(c), row)
           THEN /\ \E k \in Callers \ {c} :
                     UniqueViolation(call[k].writes, row) /\ WaitsFor(k, c)
                /\ call' = [call EXCEPT ![c] = ItemError([rec EXCEPT !.tx = "aborted"])]
           ELSE call' = [call EXCEPT ![c] =
                  NextStory([rec EXCEPT !.writes = @ \cup {row}, !.pSaved = @ + 1])]
  /\ UNCHANGED <<articles, sources, now, dbUp, outages, queue, bulks, retry, sched, hn, content, proc, cleaning, backlog, batchRun>>

\* the callback returned: commit.  The commit of an aborted transaction
\* rolls back, and the client reports it either as done or as an error.
txCommit(c) ==
  /\ call[c].pc = "txCommit"
  /\ LET rec == call[c] IN
     \/ /\ rec.tx = "open"
        /\ articles' = articles \cup rec.writes
        /\ call' = [call EXCEPT ![c] = BatchReturned(rec)]
     \/ /\ rec.tx = "aborted"
        /\ articles' = articles
        /\ \/ call' = [call EXCEPT ![c] = BatchReturned(rec)]
           \/ call' = [call EXCEPT ![c] = TxFailed(rec)]
     \/ /\ rec.tx = "dead"
        /\ articles' = articles
        /\ call' = [call EXCEPT ![c] = TxFailed(rec)]
  /\ UNCHANGED <<sources, now, dbUp, outages, queue, bulks, retry, sched, hn, content, proc, cleaning, backlog, batchRun>>

(***************************************************************************)
(* cleanupOldArticles                                                      *)
(***************************************************************************)
\* article.deleteMany({ where: { createdAt: { lt: cutoff } } }), not wrapped
\* in a retry: handleCleanup rethrows its error to the worker
cleanupOldArticles(c) ==
  /\ call[c].pc = "cleanup"
  /\ IF dbUp
       THEN LET cutoffDate == now - call[c].olderThanDays
                gone == OlderThan(articles, cutoffDate) IN
            /\ articles' = articles \ gone
            /\ call' = [call EXCEPT ![c] =
                 Ending([call[c] EXCEPT !.deleted = Cardinality(gone)], "return")]
       ELSE /\ Thrown(c, call[c])
            /\ UNCHANGED articles
  /\ UNCHANGED <<sources, now, dbUp, outages, queue, bulks, retry, sched, hn, content, proc, cleaning, backlog, batchRun>>

(***************************************************************************)
(* bulkInsertArticles                                                      *)
(***************************************************************************)
bulkStart(stories, limit) ==
  /\ Len(queue) + bulks < MaxWork
  /\ call[BulkCaller].pc = "idle"
  /\ Cardinality(Running) < limit
  /\ bulks' = bulks + 1
  /\ call' = [call EXCEPT ![BulkCaller] =
       [NoCall EXCEPT !.op = "bulk", !.pc = "ensureFind", !.stories = stories]]
  /\ UNCHANGED <<articles, sources, now, dbUp, outages, queue, retry, sched, hn, content, proc, cleaning, backlog, batchRun>>

\* the stories the filter loop keeps: neither hash nor url among the rows read
RECURSIVE FilterNew(_, _)
FilterNew(stories, existing) ==
  IF stories = <<>> THEN <<>>
  ELSE LET story == Head(stories)
           rest == FilterNew(Tail(stories), existing) IN
       IF \E x \in existing : x.hash = createContentHash(story) \/ x.url = story.sourceUrl
         THEN rest
         ELSE <<story>> \o rest

\* article.findMany of the rows of the source or with one of the urls (it
\* throws when the database is down for all attempts of its retry), then the
\* filter loop; createContentHash throws on a story without title
bulkFind(c) ==
  /\ call[c].pc = "bulkFind"
  /\ LET rec == call[c]
         urls == {rec.stories[k].sourceUrl : k \in 1..Len(rec.stories)}
         existingArticles == {x \in articles : x.sourceId = rec.sourceId \/ x.url \in urls} IN
     IF ~ dbUp
       THEN Thrown(c, rec)
       ELSE IF \E k \in 1..Len(rec.stories) : ~ rec.stories[k].hasTitle
         THEN Thrown(c, rec)
         ELSE LET articlesToInsert == FilterNew(rec.stories, existingArticles) IN
              call' = [call EXCEPT ![c] =
                IF Len(articlesToInsert) = 0
                  THEN Ending([rec EXCEPT !.skipped = Len(rec.stories)], "return")
                  ELSE [rec EXCEPT !.pc = "bulkCreate", !.toInsert = articlesToInsert]]
  /\ UNCHANGED <<articles, sources, now, dbUp, outages, queue, bulks, retry, sched, hn, content, proc, cleaning, backlog, batchRun>>

\* INSERT ... ON CONFLICT DO NOTHING of the rows, in order
RECURSIVE InsertSkipDuplicates(_, _, _, _, _)
InsertSkipDuplicates(rows, stories, sourceId, clock, taken) ==
  IF stories = <<>> THEN rows
  ELSE LET story == Head(stories)
           row == ArticleRow(FreshId(rows \cup taken), sourceId, story,
                             createContentHash(story), clock) IN
       InsertSkipDuplicates(IF UniqueViolation(rows, row) THEN rows ELSE rows \cup {row},
                            Tail(stories), sourceId, clock, taken)

\* article.createMany({ data, skipDuplicates: true }), which waits while a
\* running transaction holds a conflicting uncommitted row; when it fails on
\* every attempt of its retry the catch counts every story as an error
bulkCreate(c) ==
  /\ call[c].pc = "bulkCreate"
  /\ LET rec == call[c]
         n == Len(rec.stories) IN
     IF dbUp
       THEN /\ \A k \in 1..Len(rec.toInsert) :
                 ~ UniqueViolation(Uncommitted,
                     ArticleRow(0, rec.sourceId, rec.toInsert[k],
                                createContentHash(rec.toInsert[k]), now))
            /\ articles' = InsertSkipDuplicates(articles, rec.toInsert, rec.sourceId,
                                                now, Uncommitted)
            /\ LET count == Cardinality(articles') - Cardinality(articles) IN
               call' = [call EXCEPT ![c] =
                 Ending([rec EXCEPT !.saved = count, !.skipped = n - count], "return")]
       ELSE /\ articles' = articles
            /\ call' = [call EXCEPT ![c] =
                 Ending([rec EXCEPT !.errors = n], "return")]
  /\ UNCHANGED <<sources, now, dbUp, outages, queue, bulks, retry, sched, hn, content, proc, cleaning, backlog, batchRun>>

(***************************************************************************)
(* Environment                                                             *)
(***************************************************************************)
\* the database goes away: every running transaction is rolled back
DbDown ==
  /\ dbUp
  /\ outages < MaxOutages
  /\ dbUp' = FALSE
  /\ outages' = outages + 1
  /\ call' = [c \in Callers |->
       IF call[c].tx \in {"open", "aborted"}
         THEN [call[c] EXCEPT !.tx = "dead", !.writes = {}]
         ELSE call[c]]
  /\ UNCHANGED <<articles, sources, now, queue, bulks, retry, sched, hn, content, proc, cleaning, backlog, batchRun>>

DbBack ==
  /\ ~ dbUp
  /\ dbUp' = TRUE
  /\ UNCHANGED <<articles, sources, now, outages, queue, call, bulks, retry, sched, hn, content, proc, cleaning, backlog, batchRun>>

\* a day passes (storage calls take seconds: the day changes between them)
Tick ==
  /\ now < MaxNow
  /\ Running = {}
  /\ now' = now + 1
  /\ UNCHANGED <<articles, sources, dbUp, outages, queue, call, bulks, retry, sched, hn, content, proc, cleaning, backlog, batchRun>>

(***************************************************************************)
(* Specification                                                           *)
(***************************************************************************)
\* steps of a running storage call
CallStep ==
  \/ \E c \in Callers : ensureFind(c)
  \/ \E c \in Callers : ensureCreate(c)
  \/ \E c \in Jobs : txBegin(c)
  \/ \E c \in Jobs : checkHash(c)
  \/ \E c \in Jobs : checkUrl(c)
  \/ \E c \in Jobs : checkTitle(c)
  \/ \E c \in Jobs : createArticle(c)
  \/ \E c \in Jobs : txCommit(c)
  \/ \E c \in Jobs : cleanupOldArticles(c)
  \/ bulkFind(BulkCaller)
  \/ bulkCreate(BulkCaller)
  \/ \E c \in Callers : callReturns(c)
  \/ \E c \in Callers : callThrows(c)

Produce ==
  \/ \E stories \in Batches : addNewsBatch(stories)
  \/ \E story \in Singles : addSingleStory(story)
  \/ addCleanupJob(CleanupDays)

\* one worker with the default concurrency of 1, the bulk-insert endpoint
\* called while the worker is idle, and a database that can go away
Next ==
  \/ Produce
  \/ \E j \in Jobs : process(j, 1)
  \/ \E j \in Jobs : BackoffElapsed(j)
  \/ \E stories \in Batches : bulkStart(stories, 1)
  \/ CallStep
  \/ DbDown
  \/ DbBack
  \/ Tick

Spec == Init /\ [][Next]_vars

\* overlapping storage calls on a database that stays up
NextConcurrent ==
  \/ Produce
  \/ \E j \in Jobs : process(j, MaxConcurrent)
  \/ \E stories \in Batches : bulkStart(stories, MaxConcurrent)
  \/ CallStep
  \/ Tick

SpecConcurrent == Init /\ [][NextConcurrent]_vars

\* the source row created by ensureHackerNewsSource in an earlier cycle
HackerNewsSource == [id |-> Cardinality({SeedSource}) + 1, url |-> HackerNewsUrl]

\* the table after earlier cycles saved the stories, each on the day it
\* was published
RECURSIVE SavedEarlier(_, _)
SavedEarlier(rows, stories) ==
  IF stories = <<>> THEN rows
  ELSE LET story == Head(stories)
           row == ArticleRow(FreshId(rows), HackerNewsSource.id, story,
                             createContentHash(story), story.time) IN
       SavedEarlier(rows \cup {row}, Tail(stories))

EarlierCycles ==
  {SelectSeq(EarlierStories, LAMBDA s : s \in keep) : keep \in SUBSET Range(EarlierStories)}

\* deduplication of one story against a table filled by earlier cycles
InitDedup ==
  /\ \E earlier \in EarlierCycles : articles = SavedEarlier({SeedArticle}, earlier)
  /\ sources = {SeedSource, HackerNewsSource}
  /\ now = Now0
  /\ dbUp = TRUE
  /\ outages = 0
  /\ \E story \in Probes : queue = <<NewJob("process-single-story", <<story>>, 3)>>
  /\ call = [c \in Callers |-> NoCall]
  /\ bulks = 0
  /\ retry = NoRetry
  /\ sched = NoTick
  /\ hn = NoFetch
  /\ content = NoContent
  /\ proc = NoProc
  /\ cleaning = NoCleaning
  /\ backlog = NoBacklog
  /\ batchRun = NoBatchRun

NextDedup ==
  \/ \E j \in Jobs : process(j, 1)
  \/ \E c \in Jobs : ensureFind(c)
  \/ \E c \in Jobs : txBegin(c)
  \/ \E c \in Jobs : checkHash(c)
  \/ \E c \in Jobs : checkUrl(c)
  \/ \E c \in Jobs : checkTitle(c)
  \/ \E c \in Jobs : createArticle(c)
  \/ \E c \in Jobs : txCommit(c)
  \/ \E c \in Jobs : callReturns(c)
  \/ Tick

SpecDedup == InitDedup /\ [][NextDedup]_vars

(***************************************************************************)
(* retryWithBackoff, and the database calls of the storage service         *)
(***************************************************************************)
\* NewsStorageService.baseDelay, in milliseconds
baseDelay == 1000

\* invocations for which the behaviour of the operation is drawn (one more
\* than retryWithBackoff can make)
MaxInvocations == maxRetries + 1

\* what one invocation of the operation does: it resolves, or it rejects
\* with a Prisma error (database unreachable, pool timeout)
Errors == {"P1001", "P2024"}

Outcomes == {"ok"} \cup Errors

\* database calls passed to retryWithBackoff
WrappedCalls ==
  { "getArticleById: article.findUnique",
    "updateArticleProcessingStatus: article.update",
    "ensureHackerNewsSource: source.findUnique",
    "ensureHackerNewsSource: source.create",
    "processBatch: $transaction",
    "checkForDuplicates: article.findUnique" }

\* database calls awaited directly
BareCalls ==
  { "cleanupOldArticles: article.deleteMany",
    "getDatabaseStats: article.count",
    "getRecentHackerNewsArticles: source.findUnique" }

\* variant: the same delay before every attempt
FixedDelay(attempt) == baseDelay

\* baseDelay * Math.pow(2, attempt - 1)
BackoffDelay(attempt) == baseDelay * 2^(attempt - 1)

\* one pass of the loop of retryWithBackoff: operation() is awaited; its
\* value is returned, or its error is kept and, on the last attempt, thrown
retryInvoke ==
  /\ retry.pc = "invoke"
  /\ retry.op \in WrappedCalls
  /\ LET n == retry.invocations + 1
         out == retry.outcomes[n] IN
     retry' =
       IF out = "ok"
         THEN [retry EXCEPT !.invocations = n, !.pc = "returned"]
         ELSE IF retry.attempt = maxRetries
           THEN [retry EXCEPT !.invocations = n, !.lastError = out, !.pc = "thrown"]
           ELSE [retry EXCEPT !.invocations = n, !.lastError = out, !.pc = "sleep"]
  /\ UNCHANGED <<articles, sources, now, dbUp, outages, queue, call, bulks, sched, hn, content, proc, cleaning, backlog, batchRun>>

\* await this.sleep(delay), then the next attempt
retrySleep ==
  /\ retry.pc = "sleep"
  /\ retry' = [retry EXCEPT !.slept = Append(@, BackoffDelay(retry.attempt)),
                            !.attempt = @ + 1, !.pc = "invoke"]
  /\ UNCHANGED <<articles, sources, now, dbUp, outages, queue, call, bulks, sched, hn, content, proc, cleaning, backlog, batchRun>>

\* a database call awaited without retryWithBackoff: its error is the error
\* of the operation that made it
bareInvoke ==
  /\ retry.pc = "invoke"
  /\ retry.op \in BareCalls
  /\ LET n == retry.invocations + 1
         out == retry.outcomes[n] IN
     retry' =
       IF out = "ok"
         THEN [retry EXCEPT !.invocations = n, !.pc = "returned"]
         ELSE [retry EXCEPT !.invocations = n, !.lastError = out, !.pc = "thrown"]
  /\ UNCHANGED <<articles, sources, now, dbUp, outages, queue, call, bulks, sched, hn, content, proc, cleaning, backlog, batchRun>>

\* one database call of a storage operation, against a database whose answer
\* to each invocation is drawn beforehand
InitRetry ==
  /\ articles = {SeedArticle}
  /\ sources = {SeedSource}
  /\ now = Now0
  /\ dbUp = TRUE
  /\ outages = 0
  /\ queue = <<>>
  /\ call = [c \in Callers |-> NoCall]
  /\ bulks = 0
  /\ \E op \in WrappedCalls \cup BareCalls, outcomes \in [1..MaxInvocations -> Outcomes] :
       retry = [NoRetry EXCEPT !.op = op, !.pc = "invoke", !.outcomes = outcomes]
  /\ sched = NoTick
  /\ hn = NoFetch
  /\ content = NoContent
  /\ proc = NoProc
  /\ cleaning = NoCleaning
  /\ backlog = NoBacklog
  /\ batchRun = NoBatchRun

NextRetry ==
  \/ retryInvoke
  \/ retrySleep
  \/ bareInvoke

SpecRetry == InitRetry /\ [][NextRetry]_vars

(***************************************************************************)
(* HackerNewsService                                                       *)
(***************************************************************************)
\* item ids known to the API
MaxItems == 4

\* ids taken from the head of a story list (20 in the source)
storyLimit == 3

\* detail requests made together by processStories (5 in the source)
detailBatchSize == 2

ItemIds == 1..MaxItems

ItemTitles == <<TitleRustWins, TitleRustShips, TitleFedShort, TitleOldNews>>

ItemTitle(id) == ItemTitles[((id - 1) % Len(ItemTitles)) + 1]

\* what GET /item/<id>.json answers: the request fails, the body is null
\* (a deleted item), or it is an item: a comment, a story, a story whose
\* title is empty
ItemAnswers(id) ==
  { [ok |-> FALSE, body |-> "none", type |-> "none", title |-> <<>>],
    [ok |-> TRUE, body |-> "null", type |-> "none", title |-> <<>>],
    [ok |-> TRUE, body |-> "item", type |-> "comment", title |-> <<>>],
    [ok |-> TRUE, body |-> "item", type |-> "story", title |-> ItemTitle(id)],
    [ok |-> TRUE, body |-> "item", type |-> "story", title |-> <<>>] }

\* what GET /<category>stories.json answers: the request fails, or a list
\* of ids
IdListAnswers ==
  { [ok |-> FALSE, ids |-> <<>>] }
    \cup {[ok |-> TRUE, ids |-> ids] : ids \in {<<>>, <<1, 2, 3>>, <<4, 3, 1, 2>>}}

\* the ProcessedStory built from an item (the fields copied from the item
\* besides id and title are left out)
ProcessedStory(id, item, storyType) ==
  [id |-> id, title |-> item.title, storyType |-> storyType]

\* variant: items of every type kept
fetchStoryDetailAnyType(items, storyId, storyType) ==
  IF ~ items[storyId].ok \/ items[storyId].body = "null"
    THEN <<>>
    ELSE <<ProcessedStory(storyId, items[storyId], storyType)>>

\* fetchStoryDetail: the story, or null (here the empty sequence) when the
\* request fails, when reading the type of a null body throws, or when the
\* item is not a story with a title
fetchStoryDetail(items, storyId, storyType) ==
  IF ~ items[storyId].ok \/ items[storyId].body = "null"
    THEN <<>>
    ELSE IF items[storyId].type # "story" \/ items[storyId].title = <<>>
      THEN <<>>
      ELSE <<ProcessedStory(storyId, items[storyId], storyType)>>

\* Promise.allSettled over one batch of ids, the fulfilled non-null values
\* pushed in index order
RECURSIVE PushSettled(_, _, _)
PushSettled(items, batch, storyType) ==
  IF batch = <<>> THEN <<>>
  ELSE fetchStoryDetail(items, Head(batch), storyType)
         \o PushSettled(items, Tail(batch), storyType)

\* processStories: batch after batch
RECURSIVE ProcessBatches(_, _, _)
ProcessBatches(items, batches, storyType) ==
  IF batches = <<>> THEN <<>>
  ELSE PushSettled(items, Head(batches), storyType)
         \o ProcessBatches(items, Tail(batches), storyType)

processStories(items, storyIds, storyType) ==
  ProcessBatches(items, chunkArray(storyIds, detailBatchSize), storyType)

\* storyIds.slice(0, 20)
LimitedIds(storyIds) ==
  SubSeq(storyIds, 1, IF Len(storyIds) < storyLimit THEN Len(storyIds) ELSE storyLimit)

\* fetchTopStories / fetchBestStories / fetchNewStories: the promise settles
fetchCategory(cat) ==
  /\ hn.pc = "fetching"
  /\ hn.settled[cat].status = "pending"
  /\ hn' = [hn EXCEPT !.settled[cat] =
       IF ~ hn.idLists[cat].ok
         THEN [status |-> "rejected", value |-> <<>>]
         ELSE [status |-> "fulfilled",
               value |-> processStories(hn.items, LimitedIds(hn.idLists[cat].ids), cat)]]
  /\ UNCHANGED <<articles, sources, now, dbUp, outages, queue, call, bulks, retry, sched, content, proc, cleaning, backlog, batchRun>>

\* the value fetchAllStories takes for a settled category
SettledValue(settled) == IF settled.status = "fulfilled" THEN settled.value ELSE <<>>

\* variant: Promise.all, which rejects when one of the fetches rejects
fetchAllStoriesFailFast ==
  /\ hn.pc = "fetching"
  /\ \A cat \in Categories : hn.settled[cat].status # "pending"
  /\ hn' = IF \E cat \in Categories : hn.settled[cat].status = "rejected"
             THEN [hn EXCEPT !.pc = "thrown"]
             ELSE [hn EXCEPT !.pc = "returned",
                             !.result = [cat \in Categories |-> hn.settled[cat].value]]
  /\ UNCHANGED <<articles, sources, now, dbUp, outages, queue, call, bulks, retry, sched, content, proc, cleaning, backlog, batchRun>>

\* fetchAllStories: Promise.allSettled of the three fetches, then the result
fetchAllStories ==
  /\ hn.pc = "fetching"
  /\ \A cat \in Categories : hn.settled[cat].status # "pending"
  /\ hn' = [hn EXCEPT !.pc = "returned",
                      !.result = [cat \in Categories |-> SettledValue(hn.settled[cat])]]
  /\ UNCHANGED <<articles, sources, now, dbUp, outages, queue, call, bulks, retry, sched, content, proc, cleaning, backlog, batchRun>>

\* one call of fetchAllStories against an API whose answers are drawn
\* beforehand
InitFetch ==
  /\ articles = {SeedArticle}
  /\ sources = {SeedSource}
  /\ now = Now0
  /\ dbUp = TRUE
  /\ outages = 0
  /\ queue = <<>>
  /\ call = [c \in Callers |-> NoCall]
  /\ bulks = 0
  /\ retry = NoRetry
  /\ sched = NoTick
  /\ content = NoContent
  /\ proc = NoProc
  /\ cleaning = NoCleaning
  /\ backlog = NoBacklog
  /\ batchRun = NoBatchRun
  /\ \E idLists \in [Categories -> IdListAnswers] :
       \E items \in {f \in [ItemIds -> UNION {ItemAnswers(id) : id \in ItemIds}] :
                       \A id \in ItemIds : f[id] \in ItemAnswers(id)} :
         hn = [NoFetch EXCEPT !.pc = "fetching", !.idLists = idLists, !.items = items]

NextFetch ==
  \/ \E cat \in Categories : fetchCategory(cat)
  \/ fetchAllStories

SpecFetch == InitFetch /\ [][NextFetch]_vars

(***************************************************************************)
(* The schedulers: NewsSchedulerService and ScheduledTasksService          *)
(***************************************************************************)
\* scheduler invocations in one behaviour
MaxTicks == 2

\* handleNewsAggregation (every 30 minutes), its manual trigger, the
\* 15-minute handler and the daily handler
Handlers ==
  {"handleNewsAggregation", "triggerNewsAggregation", "handleCustomCron", "handleCronDaily"}

FirstStep(handler) ==
  IF handler = "handleCustomCron" THEN "queuePending"
  ELSE IF handler = "handleCronDaily" THEN "queueFailed"
  ELSE "fetch"

\* variant: a failed step logged, and the cycle going on to its last step
StepLoggedOnly(step) ==
  [sched EXCEPT !.pc = "cleanup", !.failed = step, !.failedRuns = @ + 1]

\* a step inside the try block of the handler threw
StepThrew(step) ==
  [sched EXCEPT !.pc = "catch", !.failed = step, !.failedRuns = @ + 1]

\* the scheduler (or the controller, for the manual trigger) calls a handler
cronFires(handler) ==
  /\ sched.pc = "idle"
  /\ sched.runs < MaxTicks
  /\ sched' = [NoTick EXCEPT !.handler = handler, !.pc = FirstStep(handler),
                             !.runs = sched.runs + 1, !.failedRuns = sched.failedRuns]
  /\ UNCHANGED <<articles, sources, now, dbUp, outages, queue, call, bulks, retry, hn, content, proc, cleaning, backlog, batchRun>>

\* what fetchAllStories can return: the stories of each category, an empty
\* list standing for a category that failed or had nothing
FetchResults ==
  {[top |-> SubSeq(b, 1, 1), best |-> SubSeq(b, 2, 2), new |-> SubSeq(b, 3, 3)] : b \in Batches}
    \cup {[top |-> <<>>, best |-> SubSeq(b, 1, 2), new |-> <<>>] : b \in Batches}
    \cup {[top |-> <<>>, best |-> <<>>, new |-> <<>>]}

\* Step 1: fetchAllStories returns the stories of the three categories, which
\* are combined in the order top, best, new; or it fails and rethrows
fetchNewsFromSources ==
  /\ sched.pc = "fetch"
  /\ \/ \E hackerNewsStories \in FetchResults :
          sched' = [sched EXCEPT !.pc = "queue", !.fetched = hackerNewsStories,
                                 !.stories = hackerNewsStories.top \o hackerNewsStories.best
                                               \o hackerNewsStories.new]
     \/ sched' = StepThrew("fetch")
  /\ UNCHANGED <<articles, sources, now, dbUp, outages, queue, call, bulks, retry, hn, content, proc, cleaning, backlog, batchRun>>

\* variant: a cycle that fetched nothing adds no job
queueNewsForProcessingSkipsEmpty ==
  /\ sched.pc = "queue"
  /\ \/ /\ queue' = IF sched.stories = <<>> THEN queue
                    ELSE Append(queue, NewJob("process-news-batch", sched.stories, 3))
        /\ sched' = [sched EXCEPT !.pc = "process"]
     \/ /\ queue' = queue
        /\ sched' = StepThrew("queue")
  /\ UNCHANGED <<articles, sources, now, dbUp, outages, call, bulks, retry, hn, content, proc, cleaning, backlog, batchRun>>

\* Step 2: addNewsBatch(stories, 'hacker-news'), or the broker is unreachable
queueNewsForProcessing ==
  /\ sched.pc = "queue"
  /\ \/ /\ queue' = Append(queue, NewJob("process-news-batch", sched.stories, 3))
        /\ sched' = [sched EXCEPT !.pc = "process"]
     \/ /\ queue' = queue
        /\ sched' = StepThrew("queue")
  /\ UNCHANGED <<articles, sources, now, dbUp, outages, call, bulks, retry, hn, content, proc, cleaning, backlog, batchRun>>

\* Steps 3 to 5 log and wait
processNewsData ==
  /\ sched.pc = "process"
  /\ sched' = [sched EXCEPT !.pc = "clusters"]
  /\ UNCHANGED <<articles, sources, now, dbUp, outages, queue, call, bulks, retry, hn, content, proc, cleaning, backlog, batchRun>>

updateNewsClusters ==
  /\ sched.pc = "clusters"
  /\ sched' = [sched EXCEPT !.pc = "digests"]
  /\ UNCHANGED <<articles, sources, now, dbUp, outages, queue, call, bulks, retry, hn, content, proc, cleaning, backlog, batchRun>>

generateUserDigests ==
  /\ sched.pc = "digests"
  /\ sched' = [sched EXCEPT !.pc = "cleanup"]
  /\ UNCHANGED <<articles, sources, now, dbUp, outages, queue, call, bulks, retry, hn, content, proc, cleaning, backlog, batchRun>>

\* Step 6: addCleanupJob(30); its own catch logs a failure and goes on
cleanupOldData ==
  /\ sched.pc = "cleanup"
  /\ \/ /\ queue' = Append(queue, NewJob("cleanup-old-articles", CleanupDays, 2))
        /\ sched' = [sched EXCEPT !.pc = "done"]
     \/ /\ queue' = queue
        /\ sched' = [sched EXCEPT !.pc = "done", !.failed = "cleanup",
                                  !.failedRuns = @ + 1]
  /\ UNCHANGED <<articles, sources, now, dbUp, outages, call, bulks, retry, hn, content, proc, cleaning, backlog, batchRun>>

\* handleCustomCron: contentQueueService.queuePendingArticles(5)
queuePendingArticles ==
  /\ sched.pc = "queuePending"
  /\ \/ sched' = [sched EXCEPT !.pc = "done"]
     \/ sched' = StepThrew("queuePending")
  /\ UNCHANGED <<articles, sources, now, dbUp, outages, queue, call, bulks, retry, hn, content, proc, cleaning, backlog, batchRun>>

\* handleCronDaily: contentQueueService.queueFailedArticlesForRetry(50)
queueFailedArticlesForRetry ==
  /\ sched.pc = "queueFailed"
  /\ \/ sched' = [sched EXCEPT !.pc = "cleanupJobs"]
     \/ sched' = StepThrew("queueFailed")
  /\ UNCHANGED <<articles, sources, now, dbUp, outages, queue, call, bulks, retry, hn, content, proc, cleaning, backlog, batchRun>>

\* handleCronDaily: contentQueueService.cleanupOldJobs()
cleanupOldJobs ==
  /\ sched.pc = "cleanupJobs"
  /\ \/ sched' = [sched EXCEPT !.pc = "done"]
     \/ sched' = StepThrew("cleanupJobs")
  /\ UNCHANGED <<articles, sources, now, dbUp, outages, queue, call, bulks, retry, hn, content, proc, cleaning, backlog, batchRun>>

\* variant: a catch block that logs and rethrows
handlerCatchesRethrows ==
  /\ sched.pc = "catch"
  /\ sched' = [sched EXCEPT !.pc = "crashed", !.outcome = "threw"]
  /\ UNCHANGED <<articles, sources, now, dbUp, outages, queue, call, bulks, retry, hn, content, proc, cleaning, backlog, batchRun>>

\* the catch block of the handler: logger.error, and the handler returns
handlerCatches ==
  /\ sched.pc = "catch"
  /\ sched' = [sched EXCEPT !.pc = "idle", !.outcome = "returned"]
  /\ UNCHANGED <<articles, sources, now, dbUp, outages, queue, call, bulks, retry, hn, content, proc, cleaning, backlog, batchRun>>

\* the try block ran to its end
handlerReturns ==
  /\ sched.pc = "done"
  /\ sched' = [sched EXCEPT !.pc = "idle", !.outcome = "returned"]
  /\ UNCHANGED <<articles, sources, now, dbUp, outages, queue, call, bulks, retry, hn, content, proc, cleaning, backlog, batchRun>>

NextScheduler ==
  \/ \E handler \in Handlers : cronFires(handler)
  \/ fetchNewsFromSources
  \/ queueNewsForProcessing
  \/ processNewsData
  \/ updateNewsClusters
  \/ generateUserDigests
  \/ cleanupOldData
  \/ queuePendingArticles
  \/ queueFailedArticlesForRetry
  \/ cleanupOldJobs
  \/ handlerCatches
  \/ handlerReturns

SpecScheduler == Init /\ [][NextScheduler]_vars

\* handleNewsAggregation and the worker of 'news-queue' that runs its jobs,
\* on a database that stays up
NextCycle ==
  \/ cronFires("handleNewsAggregation")
  \/ fetchNewsFromSources
  \/ queueNewsForProcessing
  \/ processNewsData
  \/ updateNewsClusters
  \/ generateUserDigests
  \/ cleanupOldData
  \/ handlerCatches
  \/ handlerReturns
  \/ \E j \in Jobs : process(j, 1)
  \/ \E c \in Jobs : ensureFind(c)
  \/ \E c \in Jobs : ensureCreate(c)
  \/ \E c \in Jobs : txBegin(c)
  \/ \E c \in Jobs : checkHash(c)
  \/ \E c \in Jobs : checkUrl(c)
  \/ \E c \in Jobs : checkTitle(c)
  \/ \E c \in Jobs : createArticle(c)
  \/ \E c \in Jobs : txCommit(c)
  \/ \E c \in Jobs : cleanupOldArticles(c)
  \/ \E c \in Jobs : callReturns(c)

SpecCycle == Init /\ [][NextCycle]_vars

(***************************************************************************)
(* Content enrichment: ContentQueueService, ContentProcessor, and the two  *)
(* handlers of ScheduledTasksService that feed them                        *)
(***************************************************************************)
\* the clock of the content queue counts units of five seconds
MaxTime == 2

\* queuePendingArticles(5) and queueFailedArticlesForRetry(50)
pendingLimit == 1

failedLimit == 1

\* delay: Math.random() * 10000, in clock units
Delays == {0, 1}

\* attempts: 3
contentAttempts == 3

\* backoff: { type: 'exponential', delay: 5000 }, in clock units
ContentBackoff(attemptsMade) == 2 ^ (attemptsMade - 1)

\* the jobs the handlers of one behaviour can add
ContentJobIds == 1..(MaxTicks * (pendingLimit + failedLimit))

ContentHandlers == {"handleCustomCron", "handleCronDaily"}

\* a record of another ingester, with an empty url
StoryBlank == MkStory(14, TRUE, TitleOldNews, AuthorBob, "", 20)

\* the records of the table before enrichment touched them
EnrichedStories == <<StoryA, StoryBlank>>

\* variant: the scan without the condition on the url
PendingWithAnyUrl(rows) ==
  {x \in rows : x.processingStatus = "pending"}

\* where { processingStatus: 'pending', url: { not: '' } }
PendingForProcessing(rows) ==
  {x \in rows : x.processingStatus = "pending" /\ x.url # ""}

\* where { processingStatus: 'failed', url: { not: '' } }
FailedForRetry(rows) ==
  {x \in rows : x.processingStatus = "failed" /\ x.url # ""}

Smaller(a, b) == IF a < b THEN a ELSE b

\* take: limit, orderBy: { createdAt: 'desc' }: the lists findMany may
\* return (rows created at the same instant come in any order)
TakeNewest(rows, limit) ==
  LET n == Smaller(limit, Cardinality(rows)) IN
  {found \in [1..n -> rows] :
     /\ \A a, b \in 1..n : a < b =>
          found[a] # found[b] /\ found[a].createdAt >= found[b].createdAt
     /\ \A x \in rows \ Range(found) : \A a \in 1..n : x.createdAt <= found[a].createdAt}

\* the ids of a list of rows
RowIds(found) == [k \in DOMAIN found |-> found[k].id]

\* variant: the delay option left out of contentQueue.add
NewContentJobUndelayed(articleId, delay, time) ==
  [articleId |-> articleId, delay |-> delay, enqueuedAt |-> time,
   readyAt |-> time + delay, state |-> "waiting", attemptsMade |-> 0, runs |-> 0]

\* contentQueue.add('process-article-content', { articleId, url, title },
\* { attempts: 3, backoff, delay }): a job with a delay starts as delayed
NewContentJob(articleId, delay, time) ==
  [articleId |-> articleId, delay |-> delay, enqueuedAt |-> time,
   readyAt |-> time + delay, state |-> IF delay > 0 THEN "delayed" ELSE "waiting",
   attemptsMade |-> 0, runs |-> 0]

\* prisma.article.update({ where: { id }, data: { processingStatus } })
SetStatus(rows, id, status) ==
  {IF x.id = id THEN [x EXCEPT !.processingStatus = status] ELSE x : x \in rows}

\* queuePendingArticles: getArticlesForContentProcessing(limit), which throws
\* when the database rejects the query on every attempt
getArticlesForContentProcessing ==
  /\ sched.pc = "queuePending"
  /\ \/ \E found \in TakeNewest(PendingForProcessing(articles), pendingLimit) :
          /\ content' = [content EXCEPT !.scanned = RowIds(found), !.queued = 0]
          /\ sched' = [sched EXCEPT !.pc = "queueArticles"]
     \/ /\ content' = content
        /\ sched' = StepThrew("queuePending")
  /\ UNCHANGED <<articles, sources, now, dbUp, outages, queue, call, bulks, retry, hn, proc, cleaning, backlog, batchRun>>

\* queueFailedArticlesForRetry: getFailedProcessingArticles(limit)
getFailedProcessingArticles ==
  /\ sched.pc = "queueFailed"
  /\ \/ \E found \in TakeNewest(FailedForRetry(articles), failedLimit) :
          /\ content' = [content EXCEPT !.scanned = RowIds(found), !.queued = 0]
          /\ sched' = [sched EXCEPT !.pc = "queueArticles"]
     \/ /\ content' = content
        /\ sched' = StepThrew("queueFailed")
  /\ UNCHANGED <<articles, sources, now, dbUp, outages, queue, call, bulks, retry, hn, proc, cleaning, backlog, batchRun>>

\* the loop of queueArticlesForProcessing: one add per article; an add that
\* failed is logged and the loop goes on
queueArticleForProcessing ==
  /\ sched.pc = "queueArticles"
  /\ content.scanned # <<>>
  /\ \/ \E delay \in Delays :
          LET job == NewContentJob(Head(content.scanned), delay, content.time) IN
          content' = [content EXCEPT
            !.jobs = Append(@, job),
            !.wait = IF job.state = "waiting" THEN Append(@, Len(content.jobs) + 1) ELSE @,
            !.scanned = Tail(@),
            !.queued = @ + 1]
     \/ content' = [content EXCEPT !.scanned = Tail(@)]
  /\ UNCHANGED <<articles, sources, now, dbUp, outages, queue, call, bulks, retry, sched, hn, proc, cleaning, backlog, batchRun>>

\* queueArticlesForProcessing returns the jobs: handleCustomCron is done,
\* handleCronDaily goes on to cleanupOldJobs
queueArticlesForProcessingReturns ==
  /\ sched.pc = "queueArticles"
  /\ content.scanned = <<>>
  /\ sched' = [sched EXCEPT !.pc = IF sched.handler = "handleCronDaily"
                                     THEN "cleanupJobs" ELSE "done"]
  /\ UNCHANGED <<articles, sources, now, dbUp, outages, queue, call, bulks, retry, hn, content, proc, cleaning, backlog, batchRun>>

\* five seconds pass
TimePasses ==
  /\ content.time < MaxTime
  /\ content' = [content EXCEPT !.time = @ + 1]
  /\ UNCHANGED <<articles, sources, now, dbUp, outages, queue, call, bulks, retry, sched, hn, proc, cleaning, backlog, batchRun>>

\* the delay of a delayed job has elapsed: the job joins the wait list
Promote(j) ==
  /\ j \in DOMAIN content.jobs
  /\ content.jobs[j].state = "delayed"
  /\ content.jobs[j].readyAt <= content.time
  /\ content' = [content EXCEPT !.jobs[j].state = "waiting", !.wait = Append(@, j)]
  /\ UNCHANGED <<articles, sources, now, dbUp, outages, queue, call, bulks, retry, sched, hn, proc, cleaning, backlog, batchRun>>

\* ContentProcessor.process: the worker takes the job at the head of the
\* wait list
contentProcess ==
  /\ content.pc = "idle"
  /\ content.wait # <<>>
  /\ LET j == Head(content.wait) IN
     content' = [content EXCEPT !.jobs[j].state = "active", !.jobs[j].runs = @ + 1,
                                !.wait = Tail(@), !.pc = "markProcessing", !.job = j]
  /\ UNCHANGED <<articles, sources, now, dbUp, outages, queue, call, bulks, retry, sched, hn, proc, cleaning, backlog, batchRun>>

\* handleArticleContentProcessing:
\* updateArticleProcessingStatus(articleId, 'processing'), or the update is
\* rejected on every attempt
handleArticleContentProcessing ==
  /\ content.pc = "markProcessing"
  /\ \/ /\ articles' = SetStatus(articles, content.jobs[content.job].articleId, "processing")
        /\ content' = [content EXCEPT !.pc = "processArticle"]
     \/ /\ articles' = articles
        /\ content' = [content EXCEPT !.pc = "catch"]
  /\ UNCHANGED <<sources, now, dbUp, outages, queue, call, bulks, retry, sched, hn, proc, cleaning, backlog, batchRun>>

\* contentProcessingService.processArticle, which catches its errors and
\* answers success: true or success: false
processArticle ==
  /\ content.pc = "processArticle"
  /\ \E success \in BOOLEAN :
       content' = [content EXCEPT !.pc = "writeBack", !.success = success]
  /\ UNCHANGED <<articles, sources, now, dbUp, outages, queue, call, bulks, retry, sched, hn, proc, cleaning, backlog, batchRun>>

\* the job's processor returned
ContentJobCompleted ==
  [content EXCEPT !.jobs[content.job].state = "completed", !.pc = "idle", !.job = 0]

\* the job's processor threw: delayed by the backoff while attempts remain
ContentJobFailed ==
  LET j == content.job
      made == content.jobs[j].attemptsMade + 1 IN
  [content EXCEPT !.jobs[j].attemptsMade = made,
                  !.jobs[j].state = IF made < contentAttempts THEN "delayed" ELSE "failed",
                  !.jobs[j].readyAt = IF made < contentAttempts
                                        THEN content.time + ContentBackoff(made) ELSE @,
                  !.pc = "idle", !.job = 0]

\* updateArticleContent with processingStatus 'completed' or 'failed', and the
\* handler returns; or the update is rejected on every attempt
updateArticleContent ==
  /\ content.pc = "writeBack"
  /\ \/ /\ articles' = SetStatus(articles, content.jobs[content.job].articleId,
                                 IF content.success THEN "completed" ELSE "failed")
        /\ content' = ContentJobCompleted
     \/ /\ articles' = articles
        /\ content' = [content EXCEPT !.pc = "catch"]
  /\ UNCHANGED <<sources, now, dbUp, outages, queue, call, bulks, retry, sched, hn, proc, cleaning, backlog, batchRun>>

\* the catch block: updateArticleContent with processingStatus 'failed' (or
\* that update is rejected too), and the error is thrown to the worker
handleArticleContentProcessingCatch ==
  /\ content.pc = "catch"
  /\ \/ articles' = SetStatus(articles, content.jobs[content.job].articleId, "failed")
     \/ articles' = articles
  /\ content' = ContentJobFailed
  /\ UNCHANGED <<sources, now, dbUp, outages, queue, call, bulks, retry, sched, hn, proc, cleaning, backlog, batchRun>>

\* the table when the handlers start: every record pending or failed
InitContent ==
  /\ LET rows == SavedEarlier({SeedArticle}, EnrichedStories) IN
     \E status \in [rows -> {"pending", "failed"}] :
       articles = {[x EXCEPT !.processingStatus = status[x]] : x \in rows}
  /\ sources = {SeedSource, HackerNewsSource}
  /\ now = Now0
  /\ dbUp = TRUE
  /\ outages = 0
  /\ queue = <<>>
  /\ call = [c \in Callers |-> NoCall]
  /\ bulks = 0
  /\ retry = NoRetry
  /\ sched = NoTick
  /\ hn = NoFetch
  /\ content = NoContent
  /\ proc = NoProc
  /\ cleaning = NoCleaning
  /\ backlog = NoBacklog
  /\ batchRun = NoBatchRun

NextContent ==
  \/ \E handler \in ContentHandlers : cronFires(handler)
  \/ getArticlesForContentProcessing
  \/ getFailedProcessingArticles
  \/ queueArticleForProcessing
  \/ queueArticlesForProcessingReturns
  \/ cleanupOldJobs
  \/ handlerCatches
  \/ handlerReturns
  \/ TimePasses
  \/ \E j \in ContentJobIds : Promote(j)
  \/ contentProcess
  \/ handleArticleContentProcessing
  \/ processArticle
  \/ updateArticleContent
  \/ handleArticleContentProcessingCatch

SpecContent == InitContent /\ [][NextContent]_vars

(***************************************************************************)
(* Ingestion into a table that enrichment has worked on                    *)
(***************************************************************************)
Statuses == {"pending", "processing", "completed", "failed"}

\* story lists ingested again: a saved story with a new one, and two items
\* that a saved record rejects by url and by title
IngestedAgain == {<<StoryA, StoryB>>, <<StoryUrlDup, StoryTitleDup>>}

\* the records of the seed and of StoryA in any processing status, and a
\* process-news-batch job waiting
InitReingest ==
  /\ LET rows == SavedEarlier({SeedArticle}, <<StoryA>>) IN
     \E status \in [rows -> Statuses] :
       articles = {[x EXCEPT !.processingStatus = status[x]] : x \in rows}
  /\ sources = {SeedSource, HackerNewsSource}
  /\ now = Now0
  /\ dbUp = TRUE
  /\ outages = 0
  /\ \E stories \in IngestedAgain : queue = <<NewJob("process-news-batch", stories, 3)>>
  /\ call = [c \in Callers |-> NoCall]
  /\ bulks = 0
  /\ retry = NoRetry
  /\ sched = NoTick
  /\ hn = NoFetch
  /\ content = NoContent
  /\ proc = NoProc
  /\ cleaning = NoCleaning
  /\ backlog = NoBacklog
  /\ batchRun = NoBatchRun

NextReingest ==
  \/ \E j \in Jobs : process(j, 1)
  \/ \E stories \in IngestedAgain : bulkStart(stories, 1)
  \/ \E c \in Callers : ensureFind(c)
  \/ \E c \in Jobs : txBegin(c)
  \/ \E c \in Jobs : checkHash(c)
  \/ \E c \in Jobs : checkUrl(c)
  \/ \E c \in Jobs : checkTitle(c)
  \/ \E c \in Jobs : createArticle(c)
  \/ \E c \in Jobs : txCommit(c)
  \/ bulkFind(BulkCaller)
  \/ bulkCreate(BulkCaller)
  \/ \E c \in Callers : callReturns(c)

SpecReingest == InitReingest /\ [][NextReingest]_vars

(***************************************************************************)
(* Queue statistics                                                        *)
(***************************************************************************)
\* queue.getWaiting(), getActive(), ... read at the call: the jobs of the
\* queue in one state
CountState(jobs, state) == Cardinality({j \in DOMAIN jobs : jobs[j].state = state})

\* NewsQueueService.getQueueStats
NewsQueueStats(jobs) ==
  [waiting |-> CountState(jobs, "waiting"), active |-> CountState(jobs, "active"),
   completed |-> CountState(jobs, "completed"), failed |-> CountState(jobs, "failed"),
   total |-> CountState(jobs, "waiting") + CountState(jobs, "active")
               + CountState(jobs, "completed") + CountState(jobs, "failed")]

\* ContentQueueService.getQueueStats
ContentQueueStats(jobs) ==
  [waiting |-> CountState(jobs, "waiting"), active |-> CountState(jobs, "active"),
   completed |-> CountState(jobs, "completed"), failed |-> CountState(jobs, "failed"),
   total |-> CountState(jobs, "waiting") + CountState(jobs, "active")
               + CountState(jobs, "completed") + CountState(jobs, "failed")]

\* QueueStatsService.getSingleQueueStats
getSingleQueueStats(jobs) ==
  [waiting |-> CountState(jobs, "waiting"), active |-> CountState(jobs, "active"),
   completed |-> CountState(jobs, "completed"), failed |-> CountState(jobs, "failed"),
   delayed |-> CountState(jobs, "delayed"),
   total |-> CountState(jobs, "waiting") + CountState(jobs, "active")
               + CountState(jobs, "completed") + CountState(jobs, "failed")
               + CountState(jobs, "delayed")]

(***************************************************************************)
(* ContentProcessingService (src/unnamed/part_015)                         *)
(*                                                                         *)
(* processArticle fetches the page, extracts its text and asks for a       *)
(* summary: Ollama first, OpenAI second, each under retryWithBackoff, and  *)
(* the extractive fallback last.  An HTTP exchange is a reply drawn when   *)
(* the request is made.                                                    *)
(***************************************************************************)
\* private readonly maxRetries = 3, baseDelay = 1000 (ms)
processingMaxRetries == 3
processingBaseDelay == 1000

\* no retry-after header
NoHeader == <<>>

Reply(kind, status, retryAfter) ==
  [kind |-> kind, status |-> status, retryAfter |-> retryAfter]

\* what a server can answer: a page or a summary, 429 with and without
\* retry-after, 503 with retry-after, and no answer at all
Replies ==
  {Reply("response", 200, NoHeader),
   Reply("response", 429, <<"7">>),
   Reply("response", 429, NoHeader),
   Reply("response", 503, <<"7">>),
   Reply("network", 0, NoHeader)}

DigitChars == <<"0", "1", "2", "3", "4", "5", "6", "7", "8", "9">>

DigitValue(ch) == (CHOOSE n \in 1..10 : DigitChars[n] = ch) - 1

\* parseInt on a string of decimal digits
RECURSIVE parseInt(_)
parseInt(str) ==
  IF Len(str) = 0 THEN 0
  ELSE 10 * parseInt(SubSeq(str, 1, Len(str) - 1)) + DigitValue(str[Len(str)])

Resolved == [ok |-> TRUE, response |-> FALSE, status |-> 0, retryAfter |-> NoHeader]

\* an error object: error.response is set by axios when the server answered
Rejected(response, status, retryAfter) ==
  [ok |-> FALSE, response |-> response, status |-> status, retryAfter |-> retryAfter]

\* axios with validateStatus: status < limit.  It rejects with error.response
\* when the status is not valid, and without it when no answer came.
Axios(reply, limit) ==
  IF reply.kind = "network" THEN Rejected(FALSE, 0, NoHeader)
  ELSE IF reply.status >= limit THEN Rejected(TRUE, reply.status, reply.retryAfter)
  ELSE Resolved

\* the callback of generateSummaryWithOllama and generateSummaryWithOpenAI:
\* axios.post with validateStatus: status < 500, then
\* if (response.status >= 400) throw new Error(`... API error: ...`)
SummaryCall(reply) ==
  IF ~Axios(reply, 500).ok THEN Axios(reply, 500)
  ELSE IF reply.status >= 400 THEN Rejected(FALSE, 0, NoHeader)
  ELSE Resolved

\* error.response?.status === 429
IsRateLimited(error) == error.response /\ error.status = 429

\* the delay of retryWithBackoff after a failed attempt, in ms
ExponentialDelay(attempt) == processingBaseDelay * 2 ^ (attempt - 1)

DelayAfter(error, attempt) ==
  IF IsRateLimited(error) /\ error.retryAfter # NoHeader
  THEN parseInt(error.retryAfter) * 1000
  ELSE ExponentialDelay(attempt)

\* a helper that allows one more attempt
retriesOneMore == processingMaxRetries + 1

\* retryWithBackoff(operation, operationName, retries = this.maxRetries)
retries == processingMaxRetries

\* attempt === retries
LastAttempt(attempt) == attempt = retries

\* generateSummary lets the failure of the second service escape
AfterServiceRethrows(p) ==
  LET q == [p EXCEPT !.ended = Append(@, [service |-> p.service, threw |-> TRUE,
                                          error |-> p.lastError])]
  IN  IF p.service = "ollama"
      THEN [q EXCEPT !.service = "openai", !.attempt = 1, !.pc = "invoke"]
      ELSE [q EXCEPT !.summary = "thrown", !.pc = "summarized"]

\* retryWithBackoff throws lastError: the catch blocks of generateSummary
\* go from Ollama to OpenAI and from OpenAI to generateFallbackSummary
AfterService(p) ==
  LET q == [p EXCEPT !.ended = Append(@, [service |-> p.service, threw |-> TRUE,
                                          error |-> p.lastError])]
  IN  IF p.service = "ollama"
      THEN [q EXCEPT !.service = "openai", !.attempt = 1, !.pc = "invoke"]
      ELSE [q EXCEPT !.summary = "fallback", !.pc = "summarized"]

ProcUnchanged ==
  UNCHANGED <<articles, sources, now, dbUp, outages, queue, call, bulks, retry, sched, hn, content, cleaning, backlog, batchRun>>

\* processArticle(url, title) is called
processArticleStart ==
  /\ proc.pc = "idle"
  /\ proc' = [NoProc EXCEPT !.pc = "fetch"]
  /\ ProcUnchanged

\* fetchHtmlContent: axios.get with validateStatus: status < 400; every
\* failure is rethrown and caught by processArticle, which returns
\* { success: false, error }
fetchHtmlContent ==
  /\ proc.pc = "fetch"
  /\ \E reply \in Replies :
       LET calls == Append(proc.calls, [service |-> "page", attempt |-> 1, reply |-> reply])
       IN  IF Axios(reply, 400).ok
           THEN proc' = [proc EXCEPT !.calls = calls, !.pc = "extract"]
           ELSE proc' = [proc EXCEPT !.calls = calls, !.result = "failure",
                                     !.pc = "returned"]
  /\ ProcUnchanged

\* extractReadableText returns the Readability text or, on any error, the
\* text of fallbackTextExtraction; it does not throw
extractReadableText ==
  /\ proc.pc = "extract"
  /\ proc' = [proc EXCEPT !.pc = "summarize"]
  /\ ProcUnchanged

\* generateSummary starts with generateSummaryWithOllama
generateSummary ==
  /\ proc.pc = "summarize"
  /\ proc' = [proc EXCEPT !.service = "ollama", !.attempt = 1, !.pc = "invoke"]
  /\ ProcUnchanged

\* one pass of the loop of retryWithBackoff up to the sleep
retryWithBackoffAttempt ==
  /\ proc.pc = "invoke"
  /\ \E reply \in Replies :
       LET out == SummaryCall(reply)
           p == [proc EXCEPT !.calls = Append(@, [service |-> proc.service,
                                                  attempt |-> proc.attempt,
                                                  reply |-> reply])]
       IN  IF out.ok
           THEN proc' = [p EXCEPT !.summary = proc.service, !.pc = "summarized",
                                  !.ended = Append(@, [service |-> proc.service,
                                                       threw |-> FALSE,
                                                       error |-> NoError])]
           ELSE IF IsRateLimited(out)
           THEN proc' = [p EXCEPT !.lastError = out, !.pc = "sleep"]
           ELSE IF LastAttempt(proc.attempt)
           THEN proc' = AfterService([p EXCEPT !.lastError = out])
           ELSE proc' = [p EXCEPT !.lastError = out, !.pc = "sleep"]
  /\ ProcUnchanged

\* await this.sleep(delay), then the next pass or, when the loop is over,
\* throw lastError
retryWithBackoffSleep ==
  /\ proc.pc = "sleep"
  /\ LET p == [proc EXCEPT !.slept = Append(@, [call |-> Len(proc.calls),
                                                delay |-> DelayAfter(proc.lastError,
                                                                     proc.attempt)])]
     IN  IF proc.attempt + 1 <= retries
         THEN proc' = [p EXCEPT !.attempt = @ + 1, !.pc = "invoke"]
         ELSE proc' = AfterService(p)
  /\ ProcUnchanged

\* processArticle returns { success: true, ... } with the summary, or
\* { success: false, error } from its catch block
processArticleReturns ==
  /\ proc.pc = "summarized"
  /\ proc' = [proc EXCEPT !.result = IF proc.summary = "thrown" THEN "failure"
                                     ELSE "success",
                          !.pc = "returned"]
  /\ ProcUnchanged

InitProcess ==
  /\ articles = {SeedArticle}
  /\ sources = {SeedSource}
  /\ now = Now0
  /\ dbUp = TRUE
  /\ outages = 0
  /\ queue = <<>>
  /\ call = [c \in Callers |-> NoCall]
  /\ bulks = 0
  /\ retry = NoRetry
  /\ sched = NoTick
  /\ hn = NoFetch
  /\ content = NoContent
  /\ proc = NoProc
  /\ cleaning = NoCleaning
  /\ backlog = NoBacklog
  /\ batchRun = NoBatchRun

NextProcess ==
  \/ processArticleStart
  \/ fetchHtmlContent
  \/ extractReadableText
  \/ generateSummary
  \/ retryWithBackoffAttempt
  \/ retryWithBackoffSleep
  \/ processArticleReturns

SpecProcess == InitProcess /\ [][NextProcess]_vars

\* every call of axios ends (timeout 30 s and 60 s) and sleep is a timer
SpecProcessLive == SpecProcess /\ WF_vars(NextProcess)

(***************************************************************************)
(* QueueStatsService.cleanOldJobs (queue-stats.service.ts)                 *)
(*                                                                         *)
(* Times are in days.  Queue.clean(grace, limit, type) of BullMQ removes   *)
(* up to limit jobs of the given state that finished at or before          *)
(* Date.now() - grace, oldest first, and returns their ids.                *)
(***************************************************************************)
\* the limit 100 of queue.clean, scaled
cleanLimit == 1

QueueNames == {"news-queue", "content-queue"}

\* olderThanDays: the default 7 and the 1 of a caller
DaysArgs == {1, 7}

FinishedStates == {"completed", "failed"}

\* finish times of the jobs in the queues: 9, 7 and 1 days ago
FinishTimes == {Now0 - 9, Now0 - 7, Now0 - 1}

JobSlots == 1..2

FinishedJob(name, id, state, finishedOn) ==
  [queue |-> name, id |-> id, state |-> state, finishedOn |-> finishedOn]

\* the job to remove first: the one that finished first
Oldest(jobs) ==
  CHOOSE j \in jobs :
    \A k \in jobs : j.finishedOn < k.finishedOn
                    \/ (j.finishedOn = k.finishedOn /\ j.id <= k.id)

RECURSIVE TakeOldest(_, _)
TakeOldest(jobs, limit) ==
  IF limit = 0 \/ jobs = {} THEN {}
  ELSE {Oldest(jobs)} \cup TakeOldest(jobs \ {Oldest(jobs)}, limit - 1)

\* the jobs Queue.clean(grace, limit, type) removes from queue name at time
clean(jobs, name, grace, limit, type, time) ==
  TakeOldest({j \in jobs : /\ j.queue = name
                           /\ j.state = type
                           /\ j.finishedOn <= time - grace}, limit)

\* const cutoffTime = Date.now() - olderThanDays * 24 * 60 * 60 * 1000
cutoffTime(olderThanDays, time) == time - olderThanDays

\* the jobs one call of cleanOldJobs removes: from every registered queue,
\* queue.clean(cutoffTime, 100, 'completed') and queue.clean(cutoffTime, 100, 'failed')
Cleaned(jobs, olderThanDays, time) ==
  UNION {clean(jobs, name, cutoffTime(olderThanDays, time), cleanLimit, type, time) :
           name \in QueueNames, type \in FinishedStates}

cleanOldJobs(olderThanDays) ==
  /\ cleaning.pc = "idle"
  /\ LET gone == Cleaned(cleaning.jobs, olderThanDays, now)
     IN  cleaning' = [cleaning EXCEPT !.jobs = @ \ gone, !.pc = "returned",
                                      !.days = olderThanDays,
                                      !.cleaned = Cardinality(gone)]
  /\ UNCHANGED <<articles, sources, now, dbUp, outages, queue, call, bulks, retry, sched, hn, content, proc, backlog, batchRun>>

\* the queues hold finished jobs and jobs that wait
InitCleaning ==
  /\ articles = {SeedArticle}
  /\ sources = {SeedSource}
  /\ now = Now0
  /\ dbUp = TRUE
  /\ outages = 0
  /\ queue = <<>>
  /\ call = [c \in Callers |-> NoCall]
  /\ bulks = 0
  /\ retry = NoRetry
  /\ sched = NoTick
  /\ hn = NoFetch
  /\ content = NoContent
  /\ proc = NoProc
  /\ backlog = NoBacklog
  /\ batchRun = NoBatchRun
  /\ \E state \in [QueueNames \X JobSlots -> FinishedStates \cup {"waiting"}],
        finishedOn \in [QueueNames \X JobSlots -> FinishTimes] :
       cleaning = [NoCleaning EXCEPT !.jobs =
                     {FinishedJob(slot[1], slot[2], state[slot],
                                  IF state[slot] = "waiting" THEN 0 ELSE finishedOn[slot]) :
                        slot \in QueueNames \X JobSlots}]

NextCleaning == \E olderThanDays \in DaysArgs : cleanOldJobs(olderThanDays)

SpecCleaning == InitCleaning /\ [][NextCleaning]_vars

(***************************************************************************)
(* The pending scan under continuing ingestion                             *)
(*                                                                         *)
(* The table is reduced to the records with a url that enrichment has not  *)
(* finished (pending or processing), in the order of createdAt, oldest     *)
(* first; a record that reaches completed or failed leaves this view, as   *)
(* does a finished job.  Ages are not kept: cleanupOldArticles may delete  *)
(* any number of the oldest records.                                       *)
(***************************************************************************)
\* records in the view, and jobs waiting in 'content-queue'
MaxRows == 3
MaxQueued == 2

\* keys for the records in the view and the records that jobs still name
RowKeys == 1..(MaxRows + MaxQueued + 1)

KeysOf(rows) == {rows[k].id : k \in 1..Len(rows)}

PendingKeys(rows) == {rows[k].id : k \in {n \in 1..Len(rows) : rows[n].status = "pending"}}

\* findMany({ where: { processingStatus: 'pending', url: { not: '' } },
\*            take: limit, orderBy: { createdAt: 'desc' } })
RECURSIVE NewestPending(_, _)
NewestPending(rows, limit) ==
  IF limit = 0 \/ rows = <<>> THEN <<>>
  ELSE LET last == rows[Len(rows)]
           rest == SubSeq(rows, 1, Len(rows) - 1)
       IN  IF last.status = "pending"
           THEN <<last.id>> \o NewestPending(rest, limit - 1)
           ELSE NewestPending(rest, limit)

MarkStatus(rows, id, status) ==
  [k \in 1..Len(rows) |-> IF rows[k].id = id THEN [rows[k] EXCEPT !.status = status]
                          ELSE rows[k]]

RECURSIVE Without(_, _)
Without(rows, id) ==
  IF rows = <<>> THEN <<>>
  ELSE IF Head(rows).id = id THEN Without(Tail(rows), id)
  ELSE <<Head(rows)>> \o Without(Tail(rows), id)

BacklogUnchanged ==
  UNCHANGED <<articles, sources, now, dbUp, outages, queue, call, bulks, retry, sched, hn, content, proc, cleaning, batchRun>>

\* an ingestion cycle creates a record: pending, newer than every other
ingestNewer ==
  /\ Len(backlog.rows) < MaxRows
  /\ LET id == CHOOSE n \in RowKeys : n \notin KeysOf(backlog.rows) /\ n # backlog.active
                                      /\ \A k \in 1..Len(backlog.jobs) : backlog.jobs[k] # n
     IN  backlog' = [backlog EXCEPT !.rows = Append(@, [id |-> id, status |-> "pending"])]
  /\ BacklogUnchanged

\* handleCustomCron: queuePendingArticles(5) scans and adds one job per
\* scanned record
handleCustomCron ==
  /\ LET found == NewestPending(backlog.rows, pendingLimit)
     IN  /\ Len(backlog.jobs) + Len(found) <= MaxQueued
         /\ backlog' = [backlog EXCEPT !.jobs = @ \o found]
  /\ BacklogUnchanged

\* the worker takes the next job: handleArticleContentProcessing sets the
\* record to processing (the update of a deleted record is rejected and the
\* job ends)
enrichmentStarts ==
  /\ backlog.active = 0
  /\ backlog.jobs # <<>>
  /\ LET id == Head(backlog.jobs)
     IN  IF id \in KeysOf(backlog.rows)
         THEN backlog' = [backlog EXCEPT !.jobs = Tail(@), !.active = id,
                                         !.rows = MarkStatus(@, id, "processing")]
         ELSE backlog' = [backlog EXCEPT !.jobs = Tail(@)]
  /\ BacklogUnchanged

\* processArticle returned and the record was written as completed or failed
enrichmentEnds ==
  /\ backlog.active # 0
  /\ backlog' = [backlog EXCEPT !.active = 0, !.rows = Without(@, backlog.active)]
  /\ BacklogUnchanged

\* cleanupOldArticles deletes the records created before its cutoff
cleanupDeletesOldest ==
  /\ \E n \in 1..Len(backlog.rows) :
       backlog' = [backlog EXCEPT !.rows = SubSeq(@, n + 1, Len(@))]
  /\ BacklogUnchanged

InitBacklog ==
  /\ articles = {SeedArticle}
  /\ sources = {SeedSource}
  /\ now = Now0
  /\ dbUp = TRUE
  /\ outages = 0
  /\ queue = <<>>
  /\ call = [c \in Callers |-> NoCall]
  /\ bulks = 0
  /\ retry = NoRetry
  /\ sched = NoTick
  /\ hn = NoFetch
  /\ content = NoContent
  /\ proc = NoProc
  /\ cleaning = NoCleaning
  /\ backlog = NoBacklog
  /\ batchRun = NoBatchRun

NextBacklog ==
  \/ ingestNewer
  \/ handleCustomCron
  \/ enrichmentStarts
  \/ enrichmentEnds
  \/ cleanupDeletesOldest

\* the cron trigger fires every 15 minutes and the worker of 'content-queue'
\* runs the jobs it holds; ingestion and cleanup are not obliged to run
SpecBacklog ==
  /\ InitBacklog /\ [][NextBacklog]_vars
  /\ WF_vars(handleCustomCron)
  /\ WF_vars(enrichmentStarts)
  /\ WF_vars(enrichmentEnds)

(***************************************************************************)
(* ContentProcessor.handleBatchContentProcessing (content-processor.ts)    *)
(***************************************************************************)
\* ids in the data of a process-batch-content job
MaxIds == 3

ArticleIds == {1, 2}

IdLists == UNION {[1..n -> ArticleIds] : n \in 0..MaxIds}

\* what one pass of the loop meets: getArticleById returns null or throws;
\* handleArticleContentProcessing returns success true or false, or throws
PassOutcomes == {"missing", "lookupThrows", "success", "unsuccessful", "handlerThrows"}

\* variant: an article that is not found is counted nowhere
AfterPassMissingUncounted(b, outcome) ==
  LET c == [b EXCEPT !.i = @ + 1, !.outcomes = Append(@, outcome)]
  IN  CASE outcome = "missing" -> c
        [] outcome \in {"lookupThrows", "handlerThrows"} ->
             [c EXCEPT !.failed = @ + 1, !.errors = @ + 1]
        [] outcome = "success" ->
             [c EXCEPT !.processed = @ + 1, !.successful = @ + 1]
        [] OTHER ->
             [c EXCEPT !.processed = @ + 1, !.failed = @ + 1, !.errors = @ + 1]

\* the counters after one pass of the loop over articleIds
AfterPass(b, outcome) ==
  LET c == [b EXCEPT !.i = @ + 1, !.outcomes = Append(@, outcome)]
  IN  CASE outcome \in {"missing", "lookupThrows", "handlerThrows"} ->
             [c EXCEPT !.failed = @ + 1, !.errors = @ + 1]
        [] outcome = "success" ->
             [c EXCEPT !.processed = @ + 1, !.successful = @ + 1]
        [] OTHER ->
             [c EXCEPT !.processed = @ + 1, !.failed = @ + 1, !.errors = @ + 1]

BatchRunUnchanged ==
  UNCHANGED <<articles, sources, now, dbUp, outages, queue, call, bulks, retry, sched, hn, content, proc, cleaning, backlog>>

\* the worker runs a process-batch-content job
handleBatchContentProcessing(articleIds) ==
  /\ batchRun.pc = "idle"
  /\ batchRun' = [NoBatchRun EXCEPT !.pc = "loop", !.articleIds = articleIds]
  /\ BatchRunUnchanged

\* one pass of the loop, its try and catch included
batchPass ==
  /\ batchRun.pc = "loop"
  /\ batchRun.i < Len(batchRun.articleIds)
  /\ \E outcome \in PassOutcomes : batchRun' = AfterPass(batchRun, outcome)
  /\ BatchRunUnchanged

\* return { ...results, completedAt }
batchReturns ==
  /\ batchRun.pc = "loop"
  /\ batchRun.i = Len(batchRun.articleIds)
  /\ batchRun' = [batchRun EXCEPT !.pc = "returned"]
  /\ BatchRunUnchanged

InitBatchRun ==
  /\ articles = {SeedArticle}
  /\ sources = {SeedSource}
  /\ now = Now0
  /\ dbUp = TRUE
  /\ outages = 0
  /\ queue = <<>>
  /\ call = [c \in Callers |-> NoCall]
  /\ bulks = 0
  /\ retry = NoRetry
  /\ sched = NoTick
  /\ hn = NoFetch
  /\ content = NoContent
  /\ proc = NoProc
  /\ cleaning = NoCleaning
  /\ backlog = NoBacklog
  /\ batchRun = NoBatchRun

NextBatchRun ==
  \/ \E articleIds \in IdLists : handleBatchContentProcessing(articleIds)
  \/ batchPass
  \/ batchReturns

SpecBatchRun == InitBatchRun /\ [][NextBatchRun]_vars

\* the awaited calls of a pass end (timeouts) and the sleep is a timer
SpecBatchRunLive == SpecBatchRun /\ WF_vars(batchPass) /\ WF_vars(batchReturns)

(***************************************************************************)
(* Properties                                                              *)
(***************************************************************************)
SaveCalls == {c \in Jobs : call[c].op = "save"}

\* caller c is inside the per-item block of processBatch
InItem(c) == call[c].pc \in {"checkHash", "checkUrl", "checkTitle", "create"}

\* this step ends a statement of c's current item
ItemStep(c) ==
  /\ InItem(c)
  /\ <<call'[c].pc, call'[c].b, call'[c].i, call'[c].attempt>>
       # <<call[c].pc, call[c].b, call[c].i, call[c].attempt>>

HashMatch(c) ==
  /\ Story(call[c]).hasTitle
  /\ \E x \in Visible(c) : x.hash = createContentHash(Story(call[c]))

UrlMatch(c) == \E x \in Visible(c) : x.url = Story(call[c]).sourceUrl

PCountersChange(c, dSaved, dSkipped, dDuplicates, dErrors) ==
  /\ call'[c].pSaved = call[c].pSaved + dSaved
  /\ call'[c].pSkipped = call[c].pSkipped + dSkipped
  /\ call'[c].pDuplicates = call[c].pDuplicates + dDuplicates
  /\ call'[c].pErrors = call[c].pErrors + dErrors

NothingInserted(c) == articles' = articles /\ call'[c].writes = call[c].writes

\* C1: no two persisted ArticleRecords have the same fingerprint hash, and no
\* two have the same url, whatever saveHackerNewsStories, bulkInsertArticles
\* and cleanupOldArticles executions have run and however they interleaved.
C1_NoSharedHashOrUrl ==
  \A x \in articles : \A y \in articles :
    x # y => x.hash # y.hash /\ x.url # y.url

\* C1 witness: an insert of a story is attempted while a row with its
\* fingerprint, committed by another call, is already in the table.
C1_Witness ==
  \E c \in SaveCalls :
    /\ call[c].pc = "create"
    /\ call[c].tx = "open"
    /\ \E x \in articles : x.hash = createContentHash(Story(call[c]))

\* position m of the running call j holds a well-formed story that saveBatch
\* has been run on before: at an earlier position of the same call, or in a
\* job that completed before this call started
IngestedBefore(j, m) ==
  LET s == call[j].stories[m] IN
  /\ s.hasTitle
  /\ \/ \E k \in 1..(m - 1) : call[j].stories[k] = s
     \/ \E i \in DOMAIN queue \ {j} :
          /\ queue[i].state = "completed"
          /\ queue[i].name # "cleanup-old-articles"
          /\ \E k \in DOMAIN queue[i].data : queue[i].data[k] = s

Reingested(j) == {m \in 1..Len(call[j].stories) : IngestedBefore(j, m)}

WithHash(rows, story) == {x \in rows : x.hash = createContentHash(story)}

C3_RaceLoserReportsDuplicate ==
  [][\A c \in Jobs :
       (/\ call[c].pc = "create"
        /\ call[c].tx = "open"
        /\ ItemStep(c)
        /\ WithHash(articles, Story(call[c])) # {}) =>
         /\ call'[c].pErrors = call[c].pErrors
         /\ call'[c].pSaved = call[c].pSaved
         /\ call'[c].pSkipped + call'[c].pDuplicates
              = call[c].pSkipped + call[c].pDuplicates + 1
         /\ call'[c].pc # "throw"
         /\ Cardinality(WithHash(articles', Story(call[c]))) = 1]_vars

\* the attempts a job of the given kind may use
AttemptsOf(name) == IF name = "cleanup-old-articles" THEN 2 ELSE 3

\* C4: a job is executed at most as many times as its attempts (3 for a
\* news-batch job, 3 for a single-story job, 2 for a cleanup job); a job whose
\* executions all threw is failed exactly when it has used them all, and a
\* failed job is never executed again.
C4_AttemptsBounded ==
  /\ [](\A j \in DOMAIN queue :
          /\ queue[j].runs <= AttemptsOf(queue[j].name)
          /\ queue[j].attemptsMade <= queue[j].runs
          /\ (queue[j].state = "failed") <=>
               (queue[j].attemptsMade = AttemptsOf(queue[j].name))
          /\ queue[j].state = "failed" => queue[j].runs = AttemptsOf(queue[j].name))
  /\ [][\A j \in DOMAIN queue :
          queue[j].state = "failed" => queue'[j] = queue[j]]_vars

\* C4 witness: a news-batch job and a cleanup job, both failed after their
\* last attempt
C4_Witness ==
  \E j \in DOMAIN queue : \E k \in DOMAIN queue :
    /\ queue[j].name = "process-news-batch"
    /\ queue[j].state = "failed"
    /\ queue[j].runs = 3
    /\ queue[k].name = "cleanup-old-articles"
    /\ queue[k].state = "failed"
    /\ queue[k].runs = 2

\* C5: a job is completed only if one of its executions returned without
\* throwing; an execution that throws while attempts remain does not complete
\* the job but delays it, and a delayed job does nothing but wait for its
\* backoff and be executed again.
C5_CompletedOnlyByReturn ==
  /\ [](\A j \in DOMAIN queue : queue[j].state = "completed" => queue[j].returned)
  /\ [][\A j \in DOMAIN queue :
          /\ (call[j].pc = "throw" /\ queue'[j] # queue[j]) =>
               /\ queue'[j].state # "completed"
               /\ queue[j].attemptsMade + 1 < queue[j].attempts =>
                    queue'[j].state = "delayed"
          /\ (queue[j].state = "delayed" /\ queue'[j] # queue[j]) =>
               queue'[j] = [queue[j] EXCEPT !.state = "waiting"]
          /\ (queue[j].state = "waiting" /\ queue'[j] # queue[j]) =>
               queue'[j] = [queue[j] EXCEPT !.state = "active", !.runs = @ + 1]]_vars

\* C5 witness: a job completed by an execution that followed a thrown one
C5_Witness ==
  \E j \in DOMAIN queue :
    /\ queue[j].state = "completed"
    /\ queue[j].returned
    /\ queue[j].attemptsMade = 1
    /\ queue[j].runs = 2

\* C6 as stated: when the database is unavailable for every attempt of a
\* sub-batch's transaction, saveHackerNewsStories throws instead of returning.
C6_OutagePropagates ==
  [][\A c \in Jobs :
       (/\ call[c].pc = "txBegin"
        /\ call[c].attempt = maxRetries
        /\ ~ dbUp
        /\ call[c].pSaved + call[c].pSkipped + call[c].pDuplicates + call[c].pErrors = 0
        /\ call'[c] # call[c]) =>
         call'[c].pc = "throw"]_vars

\* the running call j is the first storage call of the behaviour
FirstCall(j) ==
  /\ bulks = 0
  /\ \A i \in DOMAIN queue \ {j} : queue[i].runs = 0

\* C7 as stated: a batch whose stories are new and distinct except for one
\* without a title returns errors = 1 and saved = n - 1, and the other stories
\* are persisted.
C7_OneBadStoryOneError ==
  \A j \in SaveCalls :
    (/\ call[j].pc = "return"
     /\ call[j].stories = <<StoryA, StoryB, StoryBad>>
     /\ FirstCall(j)) =>
      /\ call[j].errors = 1
      /\ call[j].saved = 2
      /\ WithHash(articles, StoryA) # {}
      /\ WithHash(articles, StoryB) # {}

\* C8 as stated: the counters that saveHackerNewsStories returns add up to the
\* number of stories it was given.
C8_CountersAddUp ==
  \A j \in SaveCalls :
    call[j].pc = "return" =>
      call[j].saved + call[j].skipped + call[j].duplicates + call[j].errors
        = Len(call[j].stories)

\* this step ends one of the three queries of checkForDuplicates
CheckStep(c) ==
  /\ ItemStep(c)
  /\ call[c].pc \in {"checkHash", "checkUrl", "checkTitle"}

\* the row that the title query can return is (is not) similar to the story
TitleMatch(c) ==
  \E x \in FindFirstByTitle(Visible(c), Story(call[c]), now) :
    Len(x.title) > 0 /\ SimilarityAboveThreshold(Story(call[c]).title, x.title)

TitleMiss(c) ==
  LET found == FindFirstByTitle(Visible(c), Story(call[c]), now) IN
  \/ WordsLongerThan(Story(call[c]).title, 3) = {}
  \/ found = {}
  \/ \E x \in found :
       ~ (Len(x.title) > 0 /\ SimilarityAboveThreshold(Story(call[c]).title, x.title))

\* C9: a story rejected by the fingerprint check adds one to skipped and to
\* nothing else; a story rejected by the url or the title check adds one to
\* duplicates and to nothing else; neither inserts a record.
C9_RejectionCounters ==
  [][\A c \in Jobs :
       /\ (CheckStep(c) /\ call'[c].reason = "hash") =>
            PCountersChange(c, 0, 1, 0, 0) /\ NothingInserted(c)
       /\ (CheckStep(c) /\ call'[c].reason \in {"url", "title"}) =>
            PCountersChange(c, 0, 0, 1, 0) /\ NothingInserted(c)]_vars

\* C9 witness: a call has rejected one story by url and the next by title
C9_Witness ==
  \E c \in SaveCalls :
    /\ call[c].reason = "title"
    /\ call[c].pDuplicates = 2
    /\ call[c].pSkipped = 0
    /\ call[c].pSaved = 0
    /\ call[c].writes = {}

\* C10: checkForDuplicates answers 'hash' exactly when a record with the
\* story's fingerprint exists, 'url' only when none does and a record with its
\* url exists, 'title' only when neither exists and the title query matches,
\* and 'none' only when no strategy matches.
C10_CheckOrder ==
  [][\A c \in Jobs :
       CheckStep(c) =>
         /\ (call'[c].reason = "hash") <=>
              (call[c].pc = "checkHash" /\ call[c].tx = "open" /\ HashMatch(c))
         /\ call'[c].reason = "url" => ~ HashMatch(c) /\ UrlMatch(c)
         /\ call'[c].reason = "title" =>
              ~ HashMatch(c) /\ ~ UrlMatch(c) /\ TitleMatch(c)
         /\ call'[c].reason = "none" =>
              ~ HashMatch(c) /\ ~ UrlMatch(c) /\ TitleMiss(c)]_vars

\* C10 witness: the identical story, whose record matches by fingerprint, by
\* url and by title, has been answered with 'hash'
C10_Witness ==
  \E c \in SaveCalls :
    /\ call[c].reason = "hash"
    /\ call[c].pc = "txCommit"
    /\ UrlMatch(c)
    /\ TitleMatch(c)
    /\ HashMatch(c)

\* the rows of the candidate set, inside the window, that are similar to
\* the story of caller c
SimilarCandidates(c) ==
  {x \in TitleCandidates(Visible(c), Story(call[c]), now) :
     SimilarityAboveThreshold(Story(call[c]).title, x.title)}

\* caller c runs the title strategy for its story
TitleStep(c) ==
  /\ call[c].pc = "checkTitle"
  /\ call[c].tx = "open"
  /\ call'[c] # call[c]

\* the row saved for a story by an earlier cycle is in the table
SavedRow(rows, story) ==
  \E x \in rows :
    x.url = story.sourceUrl /\ x.title = story.title /\ x.publishedAt = story.time

\* C11: a story with no fingerprint or url match is reported as a 'title'
\* duplicate whenever at least one record of the candidate set, published
\* within the last 30 days, has similarity above 0.80 with its title,
\* whatever other candidates exist.  (The code scores only the candidate
\* published last.)
C11_EverySimilarCandidateCounts ==
  [][\A c \in Jobs :
       (TitleStep(c) /\ SimilarCandidates(c) # {}) => call'[c].reason = "title"]_vars

\* C12 as claimed: with the record "Fed signals rate cut" published within
\* the last 30 days, the story "Federal Reserve signals a rate cut" is
\* reported as a 'title' duplicate.
C12_FedExampleFlagged ==
  [][\A c \in Jobs :
       ( /\ TitleStep(c)
         /\ Story(call[c]) = StoryFedLong
         /\ SavedRow(Visible(c), StoryFed)
         /\ StoryFed.time >= now - TitleWindowDays ) => call'[c].reason = "title"]_vars

\* C12: with the record "Fed signals rate cut" published within the last
\* 30 days, the story "Federal Reserve signals a rate cut" (similarity 3/6)
\* is not reported as a duplicate by the title strategy, and the call that
\* carries it saves it.
C12_FedExampleInserted ==
  /\ [][\A c \in Jobs :
          ( /\ TitleStep(c)
            /\ Story(call[c]) = StoryFedLong
            /\ SavedRow(Visible(c), StoryFed)
            /\ StoryFed.time >= now - TitleWindowDays ) => call'[c].reason = "none"]_vars
  /\ [](\A c \in Jobs :
          (call[c].pc = "return" /\ call[c].stories = <<StoryFedLong>>) =>
            /\ call[c].saved = 1
            /\ call[c].duplicates = 0
            /\ SavedRow(articles, StoryFedLong))

C12_Witness ==
  \E c \in Jobs :
    /\ call[c].pc = "return"
    /\ call[c].stories = <<StoryFedLong>>
    /\ call[c].saved = 1
    /\ SavedRow(articles, StoryFed)
    /\ SavedRow(articles, StoryFedLong)
    /\ StoryFed.time >= now - TitleWindowDays

\* C13: a story is reported as a 'title' duplicate only when some record
\* published at most 30 days before the check has similarity strictly above
\* 0.80 with it (5 * |intersection| > 4 * |union| of the word sets).
C13_StrictAndWindowed ==
  [][\A c \in Jobs :
       (TitleStep(c) /\ call'[c].reason = "title") =>
         \E x \in Visible(c) :
           /\ x.publishedAt >= now - TitleWindowDays
           /\ LET words1 == WordsLongerThan(Story(call[c]).title, 2)
                  words2 == WordsLongerThan(x.title, 2)
              IN 5 * Cardinality(words1 \cap words2) > 4 * Cardinality(words1 \cup words2)]_vars

\* a story with similarity exactly 4/5 to the only candidate, and a story
\* equal in title to a record published 31 days ago, both found new
C13_Witness ==
  \E c \in Jobs :
    /\ call[c].pc = "create"
    /\ call[c].reason = "none"
    /\ \/ /\ Story(call[c]) = StoryRace
          /\ FindFirstByTitle(Visible(c), StoryRace, now) # {}
          /\ \A x \in FindFirstByTitle(Visible(c), StoryRace, now) :
               x.title = TitleRaceAgain
       \/ /\ Story(call[c]) = StoryTitleDup
          /\ SavedRow(Visible(c), StoryA)
          /\ StoryA.time = now - TitleWindowDays - 1

\* caller c runs the fingerprint query for its story
HashStep(c) ==
  /\ call[c].pc = "checkHash"
  /\ call[c].tx = "open"
  /\ call'[c] # call[c]

CleanupStep(c) ==
  /\ call[c].pc = "cleanup"
  /\ call'[c].pc = "return"

C16_CleanupIdempotent ==
  [][\A c \in Jobs :
       CleanupStep(c) =>
         LET cutoff == now - call[c].olderThanDays IN
         /\ {x \in articles' : x.createdAt < cutoff} = {}
         /\ ({x \in articles : x.createdAt < cutoff} = {}) =>
              (articles' = articles /\ call'[c].deleted = 0)]_vars

\* the second of two cleanup jobs run on the same day returns 0 after the
\* first deleted the seeded article
C16_Witness ==
  /\ Len(queue) = 2
  /\ queue[1].name = "cleanup-old-articles"
  /\ queue[1].state = "completed"
  /\ queue[2].name = "cleanup-old-articles"
  /\ queue[2].runs = 1
  /\ call[2].pc = "return"
  /\ call[2].deleted = 0
  /\ SeedArticle \notin articles
  /\ SeedArticle.createdAt < now - CleanupDays

\* the Source rows of Hacker News
HackerNewsSources == {x \in sources : x.url = HackerNewsUrl}

\* caller c executes a statement of ensureHackerNewsSource
EnsureStep(c) ==
  /\ call[c].pc \in {"ensureFind", "ensureCreate"}
  /\ call'[c] # call[c]

\* C17: however the calls of ensureHackerNewsSource interleave, there is at
\* most one Source row with the Hacker News url, and exactly one once a call
\* has returned; every call returns that row; a call whose insert is
\* rejected by the unique index runs again and returns the existing row
\* instead of failing.
C17_EnsureSourceConcurrent ==
  /\ [](/\ Cardinality(HackerNewsSources) <= 1
        /\ \A c \in Callers :
             call[c].sourceId # 0 => HackerNewsSources = {[id |-> call[c].sourceId,
                                                           url |-> HackerNewsUrl]})
  /\ [][\A c \in Callers :
          EnsureStep(c) =>
            /\ call'[c].pc # "throw"
            /\ (call[c].pc = "ensureCreate" /\ HackerNewsSources # {}) =>
                 (call'[c].pc = "ensureFind" /\ sources' = sources)
            /\ (call[c].pc = "ensureFind" /\ HackerNewsSources # {}) =>
                 call'[c].sourceId \in {x.id : x \in HackerNewsSources}]_vars

\* a call that lost the race of the insert and then returned the row of the
\* winner
C17_Witness ==
  \E c \in Callers :
    /\ call[c].ensAttempt = 2
    /\ call[c].sourceId # 0
    /\ HackerNewsSources = {[id |-> call[c].sourceId, url |-> HackerNewsUrl]}
    /\ \E k \in Callers \ {c} : call[k].sourceId = call[c].sourceId

\* the database call under observation goes through retryWithBackoff
Retried == retry.op \in WrappedCalls

\* the invocations made so far that rejected
FailedSoFar == {k \in 1..retry.invocations : retry.outcomes[k] # "ok"}

\* C18: retryWithBackoff invokes the operation at most 3 times; it returns
\* the first invocation that succeeds and invokes nothing after it; it waits
\* 1 s after the first failure and 2 s after the second; when the third
\* invocation fails its error is thrown with no further wait.
C18_RetryWithBackoff ==
  /\ [](Retried =>
          /\ retry.invocations <= 3
          /\ \A k \in 1..Len(retry.slept) : retry.slept[k] = k * 1000
          /\ Len(retry.slept) <= 2
          /\ retry.pc = "invoke" =>
               (Len(retry.slept) = retry.invocations /\ FailedSoFar = 1..retry.invocations)
          /\ retry.pc = "returned" =>
               /\ retry.outcomes[retry.invocations] = "ok"
               /\ FailedSoFar = 1..(retry.invocations - 1)
               /\ Len(retry.slept) = retry.invocations - 1
          /\ retry.pc = "thrown" =>
               /\ retry.invocations = 3
               /\ FailedSoFar = 1..3
               /\ retry.lastError = retry.outcomes[3]
               /\ retry.slept = <<1000, 2000>>)
  /\ [][(Retried /\ retry.pc \in {"returned", "thrown"}) => retry' = retry]_vars

\* three failed invocations, two waits, the third error thrown
C18_Witness ==
  /\ Retried
  /\ retry.pc = "thrown"
  /\ retry.invocations = 3
  /\ retry.slept = <<1000, 2000>>
  /\ retry.outcomes[4] = "ok"

\* C19: a database call of a storage operation that fails once and would
\* succeed when repeated does not make the operation fail.  (The calls of
\* cleanupOldArticles, getDatabaseStats and getRecentHackerNewsArticles are
\* awaited without retryWithBackoff.)
C19_EveryCallRetried ==
  ( /\ retry.pc \in {"returned", "thrown"}
    /\ retry.outcomes[1] # "ok"
    /\ retry.outcomes[2] = "ok" ) => retry.pc = "returned"

\* C20: handleNewsAggregation (scheduled or triggered manually), the
\* 15-minute handler and the daily handler never end by throwing, whichever
\* of their steps fails: the handler returns, and the scheduler is free to
\* call a handler again.
C20_SchedulersSelfHealing ==
  /\ [](/\ sched.outcome # "threw"
        /\ sched.pc # "crashed"
        /\ (sched.pc = "idle" /\ sched.runs > 0) => sched.outcome = "returned")
  /\ [][(sched.failed # "none" /\ sched.pc \in {"catch", "done"} /\ sched' # sched) =>
          /\ sched'.pc = "idle"
          /\ sched'.outcome = "returned"]_vars

\* a handler called again after an invocation in which a step failed
C20_Witness ==
  /\ sched.runs = 2
  /\ sched.failedRuns = 1
  /\ sched.failed = "none"
  /\ sched.pc = "queue"

\* the ingestion cycle is running (scheduled or triggered manually)
InCycle ==
  /\ sched.handler \in {"handleNewsAggregation", "triggerNewsAggregation"}
  /\ sched.pc # "idle"

\* C21: in an ingestion cycle the queue changes only twice and in this
\* order: after the fetch, one process-news-batch job with the stories of
\* top, best and new combined; at the end, one cleanup job with a retention
\* of 30 days.  When the fetch or the batch enqueue fails nothing more is
\* enqueued in the cycle, and the scheduler never deletes articles itself.
C21_CycleOrder ==
  [][InCycle =>
       /\ articles' = articles
       /\ sched'.pc = "queue" => sched.pc = "fetch"
       /\ sched'.pc = "cleanup" => sched.pc = "digests"
       /\ sched.pc = "digests" => Len(queue) > 0 /\ queue[Len(queue)].data = sched.stories
       /\ queue' # queue =>
            \/ /\ sched.pc = "queue"
               /\ queue' = Append(queue,
                    NewJob("process-news-batch",
                           sched.fetched.top \o sched.fetched.best \o sched.fetched.new, 3))
            \/ /\ sched.pc = "cleanup"
               /\ queue' = Append(queue, NewJob("cleanup-old-articles", 30, 2))
       /\ (sched.failed \in {"fetch", "queue"}) =>
            (queue' = queue /\ sched'.pc = "idle")]_vars

\* a cycle whose batch enqueue failed and enqueued nothing, followed by a
\* cycle that enqueued its batch job and then its cleanup job
C21_Witness ==
  /\ sched.handler = "handleNewsAggregation"
  /\ sched.runs = 2
  /\ sched.failedRuns = 1
  /\ sched.failed = "none"
  /\ sched.pc = "done"
  /\ Len(queue) = 2
  /\ queue[1].name = "process-news-batch"
  /\ queue[1].data = <<StoryA, StoryB, StoryBad>>
  /\ queue[2].name = "cleanup-old-articles"

\* the item answered for an id is a story with a title
IsTitledStory(id) ==
  /\ hn.items[id].ok
  /\ hn.items[id].body = "item"
  /\ hn.items[id].type = "story"
  /\ Len(hn.items[id].title) > 0

\* the ids whose details one category fetch asks for
AskedIds(cat) ==
  [k \in 1..(IF Len(hn.idLists[cat].ids) < storyLimit
                THEN Len(hn.idLists[cat].ids) ELSE storyLimit)
     |-> hn.idLists[cat].ids[k]]

\* C22: the result of a category fetch holds, in index order, exactly the
\* asked ids whose detail request succeeded with a story that has a title;
\* a failed request or another kind of item is dropped and neither makes
\* the fetch throw nor drops another item.
C22_FetchCategoryIsolatesItems ==
  \A cat \in Categories :
    (hn.pc # "idle" /\ hn.settled[cat].status # "pending" /\ hn.idLists[cat].ok) =>
      /\ hn.settled[cat].status = "fulfilled"
      /\ LET kept == SelectSeq(AskedIds(cat), IsTitledStory) IN
         /\ Len(hn.settled[cat].value) = Len(kept)
         /\ \A k \in 1..Len(kept) :
              /\ hn.settled[cat].value[k].id = kept[k]
              /\ hn.settled[cat].value[k].title = hn.items[kept[k]].title
              /\ hn.settled[cat].value[k].storyType = cat

\* a fetch of three ids: the first request failed, the second is a story,
\* the third a comment
C22_Witness ==
  /\ hn.pc = "fetching"
  /\ hn.idLists["top"].ids = <<1, 2, 3>>
  /\ ~ hn.items[1].ok
  /\ IsTitledStory(2)
  /\ hn.items[3].type = "comment"
  /\ hn.settled["top"].status = "fulfilled"
  /\ Len(hn.settled["top"].value) = 1
  /\ hn.settled["top"].value[1].id = 2

\* C23: fetchAllStories never throws; for each category whose fetch failed
\* it returns an empty list and for each other category what the fetch of
\* that category produced.
C23_FetchAllIsolatesCategories ==
  /\ hn.pc # "thrown"
  /\ hn.pc = "returned" =>
       \A cat \in Categories :
         /\ ~ hn.idLists[cat].ok => hn.result[cat] = <<>>
         /\ hn.idLists[cat].ok =>
              /\ hn.settled[cat].status = "fulfilled"
              /\ hn.result[cat] = hn.settled[cat].value

\* two of the three categories failed and the third returned its stories
C23_Witness ==
  /\ hn.pc = "returned"
  /\ ~ hn.idLists["top"].ok
  /\ ~ hn.idLists["new"].ok
  /\ hn.idLists["best"].ok
  /\ hn.result["top"] = <<>>
  /\ Len(hn.result["best"]) = 3

\* caller c is inside the loop over the sub-batches
InBatches(c) ==
  /\ call[c].op = "save"
  /\ call[c].pc \in {"txBegin", "checkHash", "checkUrl", "checkTitle", "create", "txCommit"}

\* the concatenation of a sequence of sequences
RECURSIVE Flatten(_)
Flatten(seqs) == IF seqs = <<>> THEN <<>> ELSE Head(seqs) \o Flatten(Tail(seqs))

\* C24: saveHackerNewsStories works through consecutive sub-batches of at
\* most batchSize stories, one after the other, each committed by its own
\* transaction; no step of it removes a committed record, and when the
\* transaction of a sub-batch fails the loop goes on with the next sub-batch
\* (or returns after the last one) instead of throwing.
C24_SubBatchesCommitIndependently ==
  [][\A c \in Jobs :
       (InBatches(c) /\ call'[c] # call[c]) =>
         LET rec == call[c] IN
         /\ Flatten(Chunks(rec)) = rec.stories
         /\ \A k \in 1..Len(Chunks(rec)) :
              Len(Chunks(rec)[k]) >= 1 /\ Len(Chunks(rec)[k]) <= batchSize
         /\ articles \subseteq articles'
         /\ \A x \in articles' \ articles :
              \E k \in 1..Len(Chunk(rec)) : x.url = Chunk(rec)[k].sourceUrl
         /\ articles' # articles => rec.pc = "txCommit"
         /\ call'[c].pc # "throw"
         /\ \/ call'[c].pc = "return" /\ rec.b = Len(Chunks(rec))
            \/ InBatches(c)' /\ call'[c].b = rec.b
            \/ InBatches(c)' /\ call'[c].b = rec.b + 1 /\ call'[c].pc = "txBegin"]_vars

\* the first sub-batch committed StoryA, the transaction of the second
\* sub-batch failed on every attempt, and the call returned
C24_Witness ==
  \E c \in Jobs :
    /\ call[c].pc = "return"
    /\ call[c].stories = <<StoryA, StoryA, StoryB>>
    /\ call[c].saved = 1
    /\ call[c].errors = 1
    /\ SavedRow(articles, StoryA)
    /\ ~ SavedRow(articles, StoryB)

\* what saveHackerNewsStories has done so far on a database that stays up
NoneSaved(rows) ==
  [rows |-> rows, saved |-> 0, skipped |-> 0, duplicates |-> 0, errors |-> 0]

\* processBatch on one story, without failures of the database: the states it
\* may leave (findFirst may return any of the most recent title candidates)
SaveOne(st, sourceId, story, clock) ==
  IF ~ story.hasTitle
    THEN {[st EXCEPT !.errors = @ + 1]}
    ELSE IF FindByHash(st.rows, createContentHash(story)) # {}
      THEN {[st EXCEPT !.skipped = @ + 1]}
      ELSE IF FindByUrl(st.rows, story.sourceUrl) # {}
        THEN {[st EXCEPT !.duplicates = @ + 1]}
        ELSE LET found == IF WordsLongerThan(story.title, 3) = {}
                            THEN {}
                            ELSE FindFirstByTitle(st.rows, story, clock)
                 row == ArticleRow(FreshId(st.rows), sourceId, story,
                                   createContentHash(story), clock)
                 inserted == [st EXCEPT !.rows = @ \cup {row}, !.saved = @ + 1]
             IN IF found = {}
                  THEN {inserted}
                  ELSE {IF /\ Len(existingByTitle.title) > 0
                           /\ SimilarityAboveThreshold(story.title, existingByTitle.title)
                          THEN [st EXCEPT !.duplicates = @ + 1]
                          ELSE inserted : existingByTitle \in found}

\* saveHackerNewsStories on a list of stories, without failures of the
\* database: every sub-batch commits, so each story sees the rows of the
\* stories before it
RECURSIVE SaveAll(_, _, _, _)
SaveAll(sts, sourceId, stories, clock) ==
  IF stories = <<>> THEN sts
  ELSE SaveAll(UNION {SaveOne(st, sourceId, Head(stories), clock) : st \in sts},
               sourceId, Tail(stories), clock)

\* the bulk-insert call ends in this step, with the database up
BulkEnds ==
  /\ call[BulkCaller].pc \in {"bulkFind", "bulkCreate"}
  /\ call'[BulkCaller].pc \in {"return", "throw"}
  /\ dbUp

\* C25: from every table and for every list of stories, bulkInsertArticles
\* returns the counters saved, skipped, duplicates and errors that
\* saveHackerNewsStories would return from that table, and leaves the same
\* rows in the table.
C25_BulkMatchesTransactional ==
  [][BulkEnds =>
       LET rec == call[BulkCaller]
           res == call'[BulkCaller] IN
       /\ res.pc = "return"
       /\ \E st \in SaveAll({NoneSaved(articles)}, rec.sourceId, rec.stories, now) :
            /\ articles' = st.rows
            /\ res.saved = st.saved
            /\ res.skipped = st.skipped
            /\ res.duplicates = st.duplicates
            /\ res.errors = st.errors]_vars

\* C26: no step of saveHackerNewsStories or bulkInsertArticles changes or
\* removes a record that exists, whatever its processing status, and every
\* record they add is in status pending.
C26_IngestionKeepsEnrichmentState ==
  [][/\ articles \subseteq articles'
     /\ \A x \in articles' \ articles : x.processingStatus = "pending"]_vars

\* StoryA, whose record is completed, was ingested again together with the
\* new StoryB: the call returned, the record of StoryA is still completed and
\* the record of StoryB is pending
C26_Witness ==
  \E c \in Callers :
    /\ call[c].pc = "return"
    /\ call[c].stories = <<StoryA, StoryB>>
    /\ call[c].saved = 1
    /\ \E x \in articles : x.hash = createContentHash(StoryA) /\ x.processingStatus = "completed"
    /\ \E y \in articles : y.hash = createContentHash(StoryB) /\ y.processingStatus = "pending"

\* the processing status of the record with this id
StatusOf(rows, id) == (CHOOSE x \in rows : x.id = id).processingStatus

\* C27: whatever the order of enrichment jobs, retries of the queue and
\* scheduler ticks, every change of a record's processing status is pending
\* to processing, processing to completed, processing to failed, or failed to
\* processing; a completed record keeps its status.
C27_StatusLifecycle ==
  [][\A x \in articles :
       LET after == StatusOf(articles', x.id) IN
       after # x.processingStatus =>
         <<x.processingStatus, after>> \in
           { <<"pending", "processing">>, <<"processing", "completed">>,
             <<"processing", "failed">>, <<"failed", "processing">> }]_vars

\* the handler's scan has just returned these records
ScanReturned(firstStep) ==
  /\ sched.pc = firstStep
  /\ sched'.pc = "queueArticles"

\* the list holds at most limit different records, each in the given status
\* and with a url
ScannedFrom(ids, rows, status, limit) ==
  /\ Len(ids) <= limit
  /\ \A a, b \in DOMAIN ids : a # b => ids[a] # ids[b]
  /\ \A a \in DOMAIN ids :
       \E x \in rows : x.id = ids[a] /\ x.processingStatus = status /\ x.url # ""

\* C28: a tick of handleCustomCron scans at most pendingLimit records, all
\* pending and with a url at scan time, and adds at most one job for each of
\* them and for no other record; a tick of handleCronDaily does the same for at
\* most failedLimit failed records and then goes on to cleanupOldJobs (unless
\* the scan threw, which the handler logs).
C28_TicksEnqueueByStatus ==
  [][/\ ScanReturned("queuePending") =>
          /\ sched.handler = "handleCustomCron"
          /\ ScannedFrom(content'.scanned, articles, "pending", pendingLimit)
          /\ content'.queued = 0
     /\ ScanReturned("queueFailed") =>
          /\ sched.handler = "handleCronDaily"
          /\ ScannedFrom(content'.scanned, articles, "failed", failedLimit)
          /\ content'.queued = 0
     /\ content'.jobs # content.jobs /\ Len(content'.jobs) = Len(content.jobs) =>
          sched' = sched /\ content'.scanned = content.scanned
     /\ Len(content'.jobs) # Len(content.jobs) =>
          /\ sched.pc = "queueArticles" /\ sched' = sched
          /\ content.scanned # <<>>
          /\ content'.jobs = Append(content.jobs, content'.jobs[Len(content'.jobs)])
          /\ content'.jobs[Len(content'.jobs)].articleId = Head(content.scanned)
          /\ content'.jobs[Len(content'.jobs)].attemptsMade = 0
          /\ content'.scanned = Tail(content.scanned)
          /\ content'.queued = content.queued + 1
     /\ content'.scanned # content.scanned =>
          \/ ScanReturned("queuePending")
          \/ ScanReturned("queueFailed")
          \/ sched.pc = "queueArticles" /\ content'.scanned = Tail(content.scanned)
     /\ sched.pc = "queueArticles" /\ sched'.pc # "queueArticles" =>
          /\ content.scanned = <<>>
          /\ content.queued <= (IF sched.handler = "handleCronDaily"
                                  THEN failedLimit ELSE pendingLimit)
          /\ sched'.pc = (IF sched.handler = "handleCronDaily" THEN "cleanupJobs" ELSE "done")
     /\ sched'.pc = "cleanupJobs" /\ sched.pc # "cleanupJobs" =>
          sched.handler = "handleCronDaily" /\ sched.pc = "queueArticles"]_vars

\* a tick of handleCustomCron added pendingLimit jobs and is done, while more
\* pending records with a url, and a pending record without url, are left
C28_Witness ==
  /\ sched.handler = "handleCustomCron"
  /\ sched.pc = "done"
  /\ content.queued = pendingLimit
  /\ Len(content.jobs) = pendingLimit
  /\ Cardinality(PendingForProcessing(articles)) > pendingLimit
  /\ \E x \in articles : x.processingStatus = "pending" /\ x.url = ""

\* the worker takes job j in this step
Delivered(j) ==
  /\ j \in DOMAIN content.jobs
  /\ content.jobs[j].state # "active"
  /\ content'.jobs[j].state = "active"

\* C29: a job added with a delay is not taken by the worker before the delay
\* has passed since it was added (nor, after a failed attempt, before its
\* backoff has passed), however long the worker has been idle; of two jobs
\* added without delay the one added first is taken first.
C29_DelayAndFifo ==
  /\ [][\A j \in ContentJobIds :
          Delivered(j) =>
            /\ content.time >= content.jobs[j].enqueuedAt + content.jobs[j].delay
            /\ content.time >= content.jobs[j].readyAt
            /\ content.pc = "idle"]_vars
  /\ [](\A a, b \in DOMAIN content.jobs :
          (a < b /\ content.jobs[a].delay = 0 /\ content.jobs[b].delay = 0
             /\ content.jobs[b].runs >= 1) => content.jobs[a].runs >= 1)

\* a job added with a delay has been taken, for the first time, after the
\* delay, and a job added later without delay was taken before it
C29_Witness ==
  \E a, b \in DOMAIN content.jobs :
    /\ a < b
    /\ content.jobs[a].delay > 0
    /\ content.jobs[a].state = "active"
    /\ content.jobs[a].runs = 1
    /\ content.time >= content.jobs[a].enqueuedAt + content.jobs[a].delay
    /\ content.jobs[b].delay = 0
    /\ content.jobs[b].state = "completed"

\* the five states of a job
JobStates == {"waiting", "active", "completed", "failed", "delayed"}

\* the statistics give the number of jobs in each state they name, no job is
\* in a state they leave out, and their total is the number of jobs in the
\* five states
FiveStateStats(stats, jobs) ==
  /\ \A state \in JobStates \cap DOMAIN stats : stats[state] = CountState(jobs, state)
  /\ \A state \in JobStates \ DOMAIN stats : CountState(jobs, state) = 0
  /\ stats.total = Cardinality({j \in DOMAIN jobs : jobs[j].state \in JobStates})

\* C30: the statistics of NewsQueueService, ContentQueueService and
\* QueueStatsService, computed from the queue as it is at the call, give the
\* number of jobs in each of the states waiting, active, completed, failed and
\* delayed, and a total that is the sum of the five.
C30_StatsCoverFiveStates ==
  /\ FiveStateStats(getSingleQueueStats(queue), queue)
  /\ FiveStateStats(getSingleQueueStats(content.jobs), content.jobs)
  /\ FiveStateStats(NewsQueueStats(queue), queue)
  /\ FiveStateStats(ContentQueueStats(content.jobs), content.jobs)

(***************************************************************************)
(* ContentProcessingService: retries and fallbacks                         *)
(***************************************************************************)
\* the invocation a sleep followed
SleptAfter(k) == proc.calls[proc.slept[k].call]

\* C31: In the retry helper of content processing, the wait after an attempt
\* that failed with HTTP 429 carrying retry-after = n is n seconds, and the
\* wait after a 429 without the header and after every other error is
\* 1 s * 2^(attempt-1).
C31_RetryAfterHonoured ==
  \A k \in 1..Len(proc.slept) :
    LET reply == SleptAfter(k).reply
    IN  IF reply.kind = "response" /\ reply.status = 429 /\ reply.retryAfter # NoHeader
        THEN proc.slept[k].delay = 1000 * parseInt(reply.retryAfter)
        ELSE proc.slept[k].delay = 1000 * 2 ^ (SleptAfter(k).attempt - 1)

Services == {"ollama", "openai"}

\* the invocations of a service's callback, in order
RECURSIVE CallsOf(_, _)
CallsOf(calls, service) ==
  IF calls = <<>> THEN <<>>
  ELSE IF Head(calls).service = service
       THEN <<Head(calls)>> \o CallsOf(Tail(calls), service)
       ELSE CallsOf(Tail(calls), service)

InvokedTimes(service) == Len(CallsOf(proc.calls, service))

HelperEnded(service) == \E k \in 1..Len(proc.ended) : proc.ended[k].service = service

HelperRuns(service) == proc.service = service /\ proc.pc \in {"invoke", "sleep"}

\* the helper threw the error of its last invocation, which was the third
ThrewLastError(e) ==
  LET mine == CallsOf(proc.calls, e.service)
  IN  /\ Len(mine) = 3
      /\ \A k \in 1..3 : mine[k].reply.status # 200
      /\ e.error = SummaryCall(mine[3].reply)
      /\ ~e.error.ok

\* the helper returned the result of its last invocation
ReturnedResult(e) ==
  LET mine == CallsOf(proc.calls, e.service)
  IN  /\ Len(mine) \in 1..3
      /\ mine[Len(mine)].reply.status = 200
      /\ \A k \in 1..(Len(mine) - 1) : mine[k].reply.status # 200

HelperBounded ==
  /\ \A service \in Services : InvokedTimes(service) <= 3
  /\ \A k \in 1..Len(proc.ended) :
       IF proc.ended[k].threw THEN ThrewLastError(proc.ended[k])
       ELSE ReturnedResult(proc.ended[k])

\* C39: For every sequence of failures, attempts that all fail with HTTP 429
\* included, the retry helper of content processing invokes the wrapped
\* operation at most 3 times, throws the error of the last failed invocation,
\* and always ends: it returns a result or throws.
C39_HelperBounded ==
  /\ []HelperBounded
  /\ \A service \in Services : HelperRuns(service) ~> HelperEnded(service)

\* the helper threw after three invocations that were all answered with 429
C39_Witness ==
  \E k \in 1..Len(proc.ended) :
    /\ proc.ended[k].threw
    /\ \A c \in 1..Len(proc.calls) :
         proc.calls[c].service = proc.ended[k].service => proc.calls[c].reply.status = 429
    /\ InvokedTimes(proc.ended[k].service) = 3

\* the helper of a service threw after three failed invocations
FailedAllRetries(service) ==
  /\ \E k \in 1..Len(proc.ended) :
       proc.ended[k].service = service /\ proc.ended[k].threw
  /\ InvokedTimes(service) = 3
  /\ \A k \in 1..3 : ~SummaryCall(CallsOf(proc.calls, service)[k].reply).ok

FallbackOrder ==
  /\ proc.summary \in {"none", "ollama", "openai", "fallback"}
  /\ InvokedTimes("openai") > 0 \/ proc.service = "openai" => FailedAllRetries("ollama")
  /\ proc.summary = "fallback" => FailedAllRetries("ollama") /\ FailedAllRetries("openai")
  /\ proc.summary = "openai" => FailedAllRetries("ollama")
  /\ proc.summary = "ollama" => InvokedTimes("openai") = 0

DefinedResult ==
  /\ proc.pc = "returned" <=> proc.result # "none"
  /\ proc.result \in {"none", "success", "failure"}
  /\ proc.result = "success" => proc.summary \in {"ollama", "openai", "fallback"}
  /\ proc.result = "failure" =>
       /\ proc.summary = "none"
       /\ Len(proc.calls) = 1 /\ ~Axios(proc.calls[1].reply, 400).ok

\* C32: generateSummary never throws and always returns a summary; OpenAI is
\* called only after Ollama failed all its retries and the extractive
\* fallback is used only after both failed; processArticle always returns
\* success or a defined failure and never throws.
C32_SummaryAlwaysReturns ==
  /\ [](FallbackOrder /\ DefinedResult)
  /\ (proc.pc = "summarize") ~> (proc.summary \in {"ollama", "openai", "fallback"})
  /\ (proc.pc = "fetch") ~> (proc.pc = "returned")

\* processArticle returned success with the extractive fallback
C32_Witness ==
  /\ proc.pc = "returned"
  /\ proc.result = "success"
  /\ proc.summary = "fallback"
  /\ InvokedTimes("ollama") = 3 /\ InvokedTimes("openai") = 3

(***************************************************************************)
(* QueueStatsService.cleanOldJobs                                          *)
(***************************************************************************)
\* the jobs of a queue in a finished state that ended more than d days ago
FinishedBefore(jobs, name, state, d) ==
  {j \in jobs : j.queue = name /\ j.state = state /\ j.finishedOn < now - d}

Min(a, b) == IF a <= b THEN a ELSE b

\* C33: cleanOldJobs(d) removes from every registered queue the completed
\* and the failed jobs that finished more than d days ago, up to the limit
\* per state and queue, removes no job that finished less than d days ago,
\* and returns the number of jobs it removed.
C33_CleanOldJobs ==
  [][\A d \in DaysArgs : cleanOldJobs(d) =>
       LET gone == cleaning.jobs \ cleaning'.jobs
       IN  /\ cleaning'.jobs \subseteq cleaning.jobs
           /\ \A j \in gone : j.state \in FinishedStates /\ j.finishedOn <= now - d
           /\ \A name \in QueueNames, state \in FinishedStates :
                Cardinality({j \in gone : j.queue = name /\ j.state = state})
                  >= Min(cleanLimit,
                         Cardinality(FinishedBefore(cleaning.jobs, name, state, d)))
           /\ cleaning'.cleaned = Cardinality(gone)]_vars

(***************************************************************************)
(* Reported saves and persisted records                                    *)
(***************************************************************************)
\* the rows in the table that the first execution of the first job added
AddedByFirstCall == articles \ {SeedArticle}

\* C34: for every saveHackerNewsStories call that returns, the saved count
\* equals the number of ArticleRecords the call added to the database, also
\* when a sub-batch transaction failed part-way, was rolled back or was
\* retried.  (Stated for the first storage call of a behaviour, where the
\* rows it added are the rows beside the seed row.)
C34_SavedMatchesPersisted ==
  \A j \in SaveCalls :
    (call[j].pc = "return" /\ FirstCall(j) /\ queue[j].runs = 1) =>
      call[j].saved = Cardinality(AddedByFirstCall)

(***************************************************************************)
(* Records left in processing                                              *)
(***************************************************************************)
\* this step ends an execution of handleArticleContentProcessing
ExecutionEnds == content.pc # "idle" /\ content'.pc = "idle"

\* C35: whenever handleArticleContentProcessing returns or throws, also when
\* the status write of its catch block fails, the record of the job is
\* completed or failed: no record is left in processing after its job
\* execution ended, so the pending and failed scans still reach it.
C35_NoneLeftProcessing ==
  [][ExecutionEnds =>
       \A x \in articles' :
         x.id = content.jobs[content.job].articleId =>
           x.processingStatus # "processing"]_vars

(***************************************************************************)
(* Starvation of pending records                                           *)
(***************************************************************************)
Enqueued(id) ==
  \/ backlog.active = id
  \/ \E k \in 1..Len(backlog.jobs) : backlog.jobs[k] = id

Count(outcomes, kinds) == Cardinality({k \in 1..Len(outcomes) : outcomes[k] \in kinds})

\* C37: handleBatchContentProcessing never throws and accounts for every id:
\* for every list of ids and every pattern of missing articles, failed
\* results and thrown exceptions it returns, successful + failed is the
\* number of ids, processed is at most that number, and every id is tried
\* whatever happened to the ids before it.
C37_BatchAccountsForEveryId ==
  /\ [](/\ batchRun.pc \in {"idle", "loop", "returned"}
        /\ batchRun.successful + batchRun.failed = batchRun.i
        /\ batchRun.processed = Count(batchRun.outcomes, {"success", "unsuccessful"})
        /\ batchRun.successful = Count(batchRun.outcomes, {"success"})
        /\ batchRun.pc = "returned" =>
             /\ Len(batchRun.outcomes) = Len(batchRun.articleIds)
             /\ batchRun.successful + batchRun.failed = Len(batchRun.articleIds)
             /\ batchRun.processed <= Len(batchRun.articleIds))
  /\ (batchRun.pc = "loop") ~> (batchRun.pc = "returned")

\* a batch of three ids returned after a missing article, a thrown exception
\* and a success
C37_Witness ==
  /\ batchRun.pc = "returned"
  /\ batchRun.outcomes = <<"missing", "handlerThrows", "success">>
  /\ batchRun.successful = 1 /\ batchRun.failed = 2 /\ batchRun.processed = 1

(***************************************************************************)
(* A cycle that fetched nothing                                            *)
(***************************************************************************)
\* the handler ran all its steps on an empty fetch result
EmptyCycleDone ==
  /\ sched.handler = "handleNewsAggregation"
  /\ sched.outcome = "returned"
  /\ sched.failed = "none"
  /\ sched.fetched = [top |-> <<>>, best |-> <<>>, new |-> <<>>]

EmptyBatchJobs ==
  {j \in DOMAIN queue : queue[j].name = "process-news-batch" /\ queue[j].data = <<>>}

\* C38: a cycle in which every category failed or had no story still adds
\* one process-news-batch job, with an empty story list, and then one
\* cleanup job; the run of the empty batch returns with all counters 0 and
\* inserts no ArticleRecord.
C38_EmptyCycleStillEnqueues ==
  /\ [](EmptyCycleDone =>
          /\ Len(queue) >= 2
          /\ Len(queue) - 1 \in EmptyBatchJobs
          /\ queue[Len(queue)].name = "cleanup-old-articles")
  /\ [](\A j \in EmptyBatchJobs \cap Jobs :
          /\ call[j].pc = "return" =>
               /\ call[j].saved = 0 /\ call[j].skipped = 0
               /\ call[j].duplicates = 0 /\ call[j].errors = 0
          /\ call[j].pc # "throw")
  /\ [][\A j \in EmptyBatchJobs \cap Jobs :
          call'[j] # call[j] => articles' = articles]_vars

\* the empty batch of a finished cycle completed, its cleanup job behind it
C38_Witness ==
  /\ EmptyCycleDone
  /\ Len(queue) = 2
  /\ queue[1].data = <<>> /\ queue[1].state = "completed" /\ queue[1].runs = 1
  /\ queue[2].name = "cleanup-old-articles"
  /\ articles = {SeedArticle}

====
